---- MODULE Spec2Model ----
(***************************************************************************)
(* Kernel generation for elementwise, reduction, dimshuffle and softmax    *)
(* operations (pytensor/link/numba/dispatch/elemwise.py).                  *)
(*                                                                         *)
(* A builder call produces a kernel description (or a build-time error);   *)
(* a kernel call runs the generated function on arrays held in `mem`.      *)
(*                                                                         *)
(* Numbers are extended rationals <<n, d>>: d > 0 is the rational n/d in   *)
(* lowest terms, <<1,0>> is +inf, <<-1,0>> is -inf and <<0,0>> is nan.     *)
(* float64 is modelled by these exact values; an integer dtype keeps its   *)
(* width (two's complement wrap on store).                                 *)
(***************************************************************************)
EXTENDS Integers, Sequences, FiniteSets, TLC

VARIABLES
    pc,      \* "idle", "built" (a builder returned or raised), "ready" (the
             \* arguments are allocated), "called", and for a dimshuffle and
             \* its inverse "built_inverse" and "round_trip"
    req,     \* the node or arguments the builder was called with
    kernel,  \* what the builder returned: a kernel, or the error it raised
    mem,     \* the buffers of the arrays, each a sequence of cells
    args,    \* the arguments of the kernel call
    ret      \* what the kernel call returned, or the error it raised

vars == <<pc, req, kernel, mem, args, ret>>

(***************************************************************************)
(* Bounds of the model                                                     *)
(***************************************************************************)
MaxDim == 2

MaxCells == 4

(***************************************************************************)
(* Scalars                                                                 *)
(***************************************************************************)
Abs(n) == IF n < 0 THEN -n ELSE n

Sign(n) == IF n > 0 THEN 1 ELSE IF n < 0 THEN -1 ELSE 0

RECURSIVE GCD(_, _)
GCD(a, b) == IF b = 0 THEN a ELSE GCD(b, a % b)

RECURSIVE Pow2(_)
Pow2(k) == IF k = 0 THEN 1 ELSE 2 * Pow2(k - 1)

\* The number n/d, normalised.
Q(n, d) ==
    IF d = 0 THEN <<Sign(n), 0>>
    ELSE LET g == GCD(Abs(n), Abs(d))
         IN <<Sign(d) * (n \div g), Abs(d) \div g>>

N(v) == <<v, 1>>

PosInf == <<1, 0>>

NegInf == <<-1, 0>>

NaN == <<0, 0>>

\* Marks an accumulator whose update raised ZeroDivisionError.
QErr == <<0, -1>>

IsFinite(a) == a[2] > 0

IsInteger(a) == a[2] = 1

QNeg(a) == <<-a[1], a[2]>>

QAdd(a, b) ==
    IF a[2] = 0 /\ b[2] = 0
    THEN (IF a[1] = b[1] THEN a ELSE NaN)
    ELSE Q(a[1] * b[2] + b[1] * a[2], a[2] * b[2])

QSub(a, b) == QAdd(a, QNeg(b))

QMul(a, b) == Q(a[1] * b[1], a[2] * b[2])

\* b is not zero.
QDiv(a, b) == Q(a[1] * b[2] * Sign(b[1]), a[2] * Abs(b[1]))

QLess(a, b) ==
    IF a = NaN \/ b = NaN THEN FALSE
    ELSE IF a[2] = 0 /\ b[2] = 0 THEN a[1] < b[1]
    ELSE a[1] * b[2] < b[1] * a[2]

\* floor and truncation of a finite number
QFloor(a) == a[1] \div a[2]

QTrunc(a) == Sign(a[1]) * (Abs(a[1]) \div a[2])

(***************************************************************************)
(* dtypes                                                                  *)
(***************************************************************************)
IntDTypes == {"int8", "int16", "uint8"}

DTypes == IntDTypes \cup {"float64"}

\* numpy.dtype.kind
Kind(dtype) ==
    IF dtype \in {"int8", "int16"} THEN "i"
    ELSE IF dtype = "uint8" THEN "u" ELSE "f"

Bits(dtype) == IF dtype = "int16" THEN 16 ELSE 8

\* numpy.iinfo(dtype).min, numpy.iinfo(dtype).max
IInfoMin(dtype) == IF Kind(dtype) = "u" THEN 0 ELSE -Pow2(Bits(dtype) - 1)

IInfoMax(dtype) ==
    IF Kind(dtype) = "u" THEN Pow2(Bits(dtype)) - 1 ELSE Pow2(Bits(dtype) - 1) - 1

\* An integer stored into an integer dtype keeps the low bits.
Wrap(dtype, v) ==
    ((v - IInfoMin(dtype)) % Pow2(Bits(dtype))) + IInfoMin(dtype)

\* What a conversion of a non-finite float to an integer dtype can give:
\* the conversion is undefined, builds give the saturated value or zero
\* (the low bits of the "integer indefinite" value).
UBOutcomes(dtype) == {IInfoMin(dtype), 0, IInfoMax(dtype)}

\* Store of the number a into an array of `dtype`; ub is what this run's
\* undefined float-to-integer conversions give.
CastTo(dtype, a, ub) ==
    IF a = QErr THEN QErr
    ELSE IF dtype = "float64" THEN a
    ELSE IF ~IsFinite(a) THEN N(ub)
    ELSE N(Wrap(dtype, QTrunc(a)))

(***************************************************************************)
(* Array values: a shape and the cells in row-major (C) order              *)
(***************************************************************************)
Arr(shape, data) == [kind |-> "array", shape |-> shape, data |-> data]

\* A bare scalar, as `res.item()` or a rank-0 argument gives.
Scalar(v) == [kind |-> "scalar", shape |-> <<>>, data |-> <<v>>]

\* A call or a build that raised.
Err(e) == [kind |-> "error", err |-> e]

\* An exception raised with a message.
ErrMsg(e, msg) == [kind |-> "error", err |-> e, msg |-> msg]

\* numpy's AxisError, a ValueError: "axis {axis} is out of bounds for array
\* of dimension {ndim}".
AxisError(axis, ndim) == [kind |-> "error", err |-> "ValueError", axis |-> axis, ndim |-> ndim]

RECURSIVE Prod(_)
Prod(s) == IF s = <<>> THEN 1 ELSE Head(s) * Prod(Tail(s))

\* Index tuple (0-based) of the cell at row-major position f (0-based).
RECURSIVE Unravel(_, _)
Unravel(f, shape) ==
    IF shape = <<>> THEN <<>>
    ELSE LET r == Prod(Tail(shape))
         IN <<f \div r>> \o Unravel(f % r, Tail(shape))

\* Row-major position (0-based) of the cell at index tuple idx.
RECURSIVE Ravel(_, _)
Ravel(idx, shape) ==
    IF shape = <<>> THEN 0
    ELSE Head(idx) * Prod(Tail(shape)) + Ravel(Tail(idx), Tail(shape))

\* s without its p-th entry, and s with v inserted before its p-th entry (p 1-based).
RemoveAt(s, p) == SubSeq(s, 1, p - 1) \o SubSeq(s, p + 1, Len(s))

InsertAt(s, p, v) == SubSeq(s, 1, p - 1) \o <<v>> \o SubSeq(s, p, Len(s))

Cell(x, idx) == x.data[1 + Ravel(idx, x.shape)]

(***************************************************************************)
(* scalar_in_place_fn: the registered in-place update fragments.  Each     *)
(* gives the value the fragment assigns to res[idx] from the accumulator   *)
(* res, the operand arr and the loop index i, before the store's cast.     *)
(***************************************************************************)
RegisteredOps ==
    {"Add", "Sub", "Mean", "Mul", "MulWithoutZeros", "AND", "OR", "XOR",
     "TrueDiv", "IntDiv", "ScalarMaximum", "ScalarMinimum"}

BitwiseOps == {"AND", "OR", "XOR"}

scalar_in_place_fn_Add(res, arr, i) == QAdd(res, arr)

scalar_in_place_fn_Sub(res, arr, i) == QSub(res, arr)

scalar_in_place_fn_Mean(res, arr, i) == QAdd(res, QDiv(QSub(arr, res), N(i + 1)))

scalar_in_place_fn_Mul(res, arr, i) == QMul(res, arr)

\* The update without the test of the operand against zero
scalar_in_place_fn_MulWithoutZeros_zero_operand(res, arr, i) ==
    IF res = N(0) THEN arr ELSE QMul(res, arr)

\* The update multiplying whatever the operands are
scalar_in_place_fn_MulWithoutZeros_plain(res, arr, i) == QMul(res, arr)

scalar_in_place_fn_MulWithoutZeros(res, arr, i) ==
    IF res = N(0) THEN arr ELSE (IF arr = N(0) THEN res ELSE QMul(res, arr))

\* Bitwise operators on the low bits of two's complement integers (the
\* widest integer dtype of the model).
BitWidth == Bits("int16")

ToUnsigned(v) == v % Pow2(BitWidth)

ToSigned(u) == IF u >= Pow2(BitWidth - 1) THEN u - Pow2(BitWidth) ELSE u

BitF(op, a, b) ==
    IF op = "AND" THEN a * b
    ELSE IF op = "OR" THEN (IF a + b > 0 THEN 1 ELSE 0)
    ELSE (a + b) % 2

RECURSIVE BitOp(_, _, _, _)
BitOp(op, a, b, k) ==
    IF k = 0 THEN 0
    ELSE BitF(op, a % 2, b % 2) + 2 * BitOp(op, a \div 2, b \div 2, k - 1)

Bitwise(op, res, arr) ==
    N(ToSigned(BitOp(op, ToUnsigned(res[1]), ToUnsigned(arr[1]), BitWidth)))

scalar_in_place_fn_AND(res, arr, i) == Bitwise("AND", res, arr)

scalar_in_place_fn_OR(res, arr, i) == Bitwise("OR", res, arr)

scalar_in_place_fn_XOR(res, arr, i) == Bitwise("XOR", res, arr)

\* A zero divisor raises ZeroDivisionError in the compiled kernel.
scalar_in_place_fn_TrueDiv(res, arr, i) ==
    IF arr = N(0) THEN QErr ELSE QDiv(res, arr)

scalar_in_place_fn_IntDiv(res, arr, i) ==
    IF arr = N(0) THEN QErr
    ELSE LET q == QDiv(res, arr)
         IN IF IsFinite(q) THEN N(QFloor(q)) ELSE NaN

scalar_in_place_fn_ScalarMaximum(res, arr, i) == IF QLess(res, arr) THEN arr ELSE res

scalar_in_place_fn_ScalarMinimum(res, arr, i) == IF QLess(arr, res) THEN arr ELSE res

scalar_in_place_fn(op, res, arr, i) ==
    CASE op = "Add" -> scalar_in_place_fn_Add(res, arr, i)
      [] op = "Sub" -> scalar_in_place_fn_Sub(res, arr, i)
      [] op = "Mean" -> scalar_in_place_fn_Mean(res, arr, i)
      [] op = "Mul" -> scalar_in_place_fn_Mul(res, arr, i)
      [] op = "MulWithoutZeros" -> scalar_in_place_fn_MulWithoutZeros(res, arr, i)
      [] op = "AND" -> scalar_in_place_fn_AND(res, arr, i)
      [] op = "OR" -> scalar_in_place_fn_OR(res, arr, i)
      [] op = "XOR" -> scalar_in_place_fn_XOR(res, arr, i)
      [] op = "TrueDiv" -> scalar_in_place_fn_TrueDiv(res, arr, i)
      [] op = "IntDiv" -> scalar_in_place_fn_IntDiv(res, arr, i)
      [] op = "ScalarMaximum" -> scalar_in_place_fn_ScalarMaximum(res, arr, i)
      [] op = "ScalarMinimum" -> scalar_in_place_fn_ScalarMinimum(res, arr, i)

(***************************************************************************)
(* create_axis_reducer                                                     *)
(***************************************************************************)
\* numpy's normalize_axis_index: the axis in [0, ndim), or -1 for an AxisError.
BadAxis == -1

\* normalize_axis_index with the upper bound of the range off by one
normalize_axis_index_lax(axis, ndim) ==
    IF axis < -ndim \/ axis > ndim THEN BadAxis
    ELSE IF axis < 0 THEN axis + ndim ELSE axis

normalize_axis_index(axis, ndim) ==
    IF axis < -ndim \/ axis >= ndim THEN BadAxis
    ELSE IF axis < 0 THEN axis + ndim ELSE axis

\* The identity as the text embedded in the generated source (lines 226-230).
IdentityLiteral(identity) ==
    IF identity = PosInf THEN [text |-> "np.inf"]
    ELSE IF identity = NegInf THEN [text |-> "-np.inf"]
    ELSE [text |-> "number", num |-> identity[1], den |-> identity[2]]

\* numba_basic.to_scalar(<literal>) as the generated kernel evaluates it.
to_scalar(lit) ==
    IF lit.text = "np.inf" THEN PosInf
    ELSE IF lit.text = "-np.inf" THEN NegInf
    ELSE Q(lit.num, lit.den)

\* create_axis_reducer that looks up the operator's update only when the
\* kernel runs
create_axis_reducer_lazy(scalar_op, identity, axis, ndim, dtype, keepdims) ==
    IF normalize_axis_index(axis, ndim) = BadAxis THEN AxisError(axis, ndim)
    ELSE [kind |-> "careduce_axis", name |-> "careduce_axis", scalar_op |-> scalar_op,
          identity |-> IdentityLiteral(identity),
          axis |-> normalize_axis_index(axis, ndim), ndim |-> ndim,
          dtype |-> dtype, keepdims |-> keepdims]

\* create_axis_reducer naming the generated function after the builder calls
\* made before
create_axis_reducer_numbered(scalar_op, identity, axis, ndim, dtype, keepdims) ==
    IF normalize_axis_index(axis, ndim) = BadAxis THEN AxisError(axis, ndim)
    ELSE IF scalar_op \notin RegisteredOps THEN Err("NotImplementedError")
    ELSE [kind |-> "careduce_axis",
          name |-> IF pc = "idle" THEN "careduce_axis" ELSE "careduce_axis_1",
          scalar_op |-> scalar_op,
          identity |-> IdentityLiteral(identity),
          axis |-> normalize_axis_index(axis, ndim), ndim |-> ndim,
          dtype |-> dtype, keepdims |-> keepdims]

\* The builder's result: the generated function careduce_axis with the
\* values embedded in its source, or the exception raised.
create_axis_reducer(scalar_op, identity, axis, ndim, dtype, keepdims) ==
    IF normalize_axis_index(axis, ndim) = BadAxis THEN AxisError(axis, ndim)
    ELSE IF scalar_op \notin RegisteredOps THEN Err("NotImplementedError")
    ELSE [kind |-> "careduce_axis", name |-> "careduce_axis", scalar_op |-> scalar_op,
          identity |-> IdentityLiteral(identity),
          axis |-> normalize_axis_index(axis, ndim), ndim |-> ndim,
          dtype |-> dtype, keepdims |-> keepdims]

\* The inner loop `for i in range(axis_shape)` over the operands elems,
\* starting at loop index i, with the store's cast after every update.
RECURSIVE FoldAxis(_, _, _, _, _, _)
FoldAxis(op, dtype, ub, acc, elems, i) ==
    IF elems = <<>> \/ acc = QErr THEN acc
    ELSE FoldAxis(op, dtype, ub,
                  CastTo(dtype, scalar_in_place_fn(op, acc, Head(elems), i), ub),
                  Tail(elems), i + 1)

\* careduce_axis leaving a dimension of length 1 in place of the reduced one
careduce_axis_keepdims(k, x, ub) ==
    LET shape == [i \in 1..Len(x.shape) |-> IF i = k.axis + 1 THEN 1 ELSE x.shape[i]]
    IN Arr(shape, [j \in 1..Prod(shape) |-> N(0)])

\* The generated function careduce_axis(x) of the kernel k.
careduce_axis(k, x, ub) ==
    LET identity == CastTo(k.dtype, to_scalar(k.identity), ub)
        axis_shape == x.shape[k.axis + 1]
    IN IF k.ndim > 1
       THEN LET res_shape == RemoveAt(x.shape, k.axis + 1)
                res == [j \in 1..Prod(res_shape) |->
                          LET idx_arr == Unravel(j - 1, res_shape)
                          IN FoldAxis(k.scalar_op, k.dtype, ub, identity,
                                 [i \in 1..axis_shape |->
                                     Cell(x, InsertAt(idx_arr, k.axis + 1, i - 1))],
                                 0)]
            IN IF \E j \in DOMAIN res : res[j] = QErr
               THEN Err("ZeroDivisionError")
               ELSE IF k.keepdims
                    THEN Arr(InsertAt(res_shape, k.axis + 1, 1), res)
                    ELSE Arr(res_shape, res)
       ELSE LET r == FoldAxis(k.scalar_op, k.dtype, ub, identity,
                              [i \in 1..axis_shape |-> x.data[i]], 0)
            IN IF r = QErr THEN Err("ZeroDivisionError")
               ELSE IF k.keepdims THEN Arr(<<1>>, <<r>>) ELSE Scalar(r)


(***************************************************************************)
(* create_multiaxis_reducer                                                *)
(***************************************************************************)
SeqToSet(s) == {s[i] : i \in DOMAIN s}

\* The axes sorted the other way round, lowest first
RECURSIVE SortDesc_ascending(_)
SortDesc_ascending(S) ==
    IF S = {} THEN <<>>
    ELSE LET m == CHOOSE a \in S : \A b \in S : a <= b
         IN <<m>> \o SortDesc_ascending(S \ {m})

\* The elements of a finite set of integers in descending order:
\* reversed(sorted(axes)).
RECURSIVE SortDesc(_)
SortDesc(S) ==
    IF S = {} THEN <<>>
    ELSE LET m == CHOOSE a \in S : \A b \in S : b <= a
         IN <<m>> \o SortDesc(S \ {m})

\* numpy's normalize_axis_tuple: the normalised axes, or an error when an
\* axis is out of range or an axis is repeated.
normalize_axis_tuple(axes, ndim) ==
    LET norm == [i \in DOMAIN axes |-> normalize_axis_index(axes[i], ndim)]
    IN IF \E i \in DOMAIN norm : norm[i] = BadAxis
       THEN AxisError(axes[CHOOSE i \in DOMAIN norm :
                             /\ norm[i] = BadAxis
                             /\ \A j \in 1..(i - 1) : norm[j] # BadAxis], ndim)
       ELSE IF Cardinality(SeqToSet(norm)) # Len(norm)
       THEN ErrMsg("ValueError", "repeated axis")
       ELSE [kind |-> "axes", axes |-> norm]

\* The loop of lines 354-368: stage i reduces to_reduce[i] of an input of
\* rank ndim - i.
RECURSIVE MultiaxisStages(_, _, _, _, _)
MultiaxisStages(scalar_op, identity, to_reduce, ndim, dtype) ==
    IF to_reduce = <<>> THEN <<>>
    ELSE <<create_axis_reducer(scalar_op, identity, Head(to_reduce), ndim, dtype, FALSE)>>
         \o MultiaxisStages(scalar_op, identity, Tail(to_reduce), ndim - 1, dtype)

\* create_multiaxis_reducer taking an empty axes tuple for all the axes
create_multiaxis_reducer_all_axes(scalar_op, identity, axes, ndim, dtype) ==
    IF axes = <<>> /\ ndim > 1
    THEN [kind |-> "careduce_multi", name |-> <<"careduce", scalar_op>>,
          scalar_op |-> scalar_op, ndim |-> ndim,
          stages |-> MultiaxisStages(scalar_op, identity,
                                     SortDesc(0..(ndim - 1)), ndim, dtype)]
    ELSE IF axes = <<>> /\ ndim = 1
    THEN create_axis_reducer(scalar_op, identity, 0, ndim, dtype, FALSE)
    ELSE [kind |-> "careduce_multi", name |-> <<"careduce", scalar_op>>,
          scalar_op |-> scalar_op, ndim |-> ndim, stages |-> <<>>]

create_multiaxis_reducer(scalar_op, identity, axes, ndim, dtype) ==
    IF Len(axes) = 1
    THEN create_axis_reducer(scalar_op, identity, axes[1], ndim, dtype, FALSE)
    ELSE LET norm == normalize_axis_tuple(axes, ndim)
         IN IF norm.kind = "error" THEN norm
            ELSE LET stages == MultiaxisStages(scalar_op, identity,
                                   SortDesc(SeqToSet(norm.axes)), ndim, dtype)
                 IN IF \E i \in DOMAIN stages : stages[i].kind = "error"
                    THEN stages[CHOOSE i \in DOMAIN stages :
                                  /\ stages[i].kind = "error"
                                  /\ \A j \in 1..(i - 1) : stages[j].kind # "error"]
                    ELSE [kind |-> "careduce_multi", name |-> <<"careduce", scalar_op>>,
                          scalar_op |-> scalar_op, ndim |-> ndim, stages |-> stages]

\* The composed function: axis_i_res = careduce_axes_fn_i(axis_{i-1}_res),
\* returning the last result (the input itself when there is no stage).
RECURSIVE careduce_stages(_, _, _)
careduce_stages(stages, x, ub) ==
    IF stages = <<>> \/ x.kind = "error" THEN x
    ELSE careduce_stages(Tail(stages), careduce_axis(Head(stages), x, ub), ub)

\* The composed function returning the first stage's result
careduce_multi_first(k, x, ub) ==
    IF k.stages = <<>> THEN x ELSE careduce_axis(k.stages[1], x, ub)

careduce_multi(k, x, ub) == careduce_stages(k.stages, x, ub)

\* The function a reducer kernel of either form computes.
careduce(k, x, ub) ==
    IF k.kind = "careduce_axis" THEN careduce_axis(k, x, ub)
    ELSE careduce_multi(k, x, ub)

(***************************************************************************)
(* numba_funcify_CAReduce                                                  *)
(***************************************************************************)
\* What numpy.array(v, dtype=uint...) can give for a non-finite v: the
\* conversion raises OverflowError or, where it is done by a C cast, is
\* undefined.
NonFiniteToInt(dtype) == {Err("OverflowError")} \cup {Scalar(N(u)) : u \in UBOutcomes(dtype)}

\* numpy.array(identity, dtype=np_acc_dtype); conv is the outcome of the
\* conversion of a non-finite value to an integer dtype.
IdentityArray(identity, dtype, conv) ==
    IF dtype = "float64" THEN Scalar(identity)
    ELSE IF ~IsFinite(identity) THEN conv
    ELSE Scalar(N(Wrap(dtype, QTrunc(identity))))

\* Lines 508-513: the identity of the scalar operator, saturated.
SaturatedIdentity(identity, np_acc_dtype) ==
    IF Kind(np_acc_dtype) = "i" /\ ~IsFinite(identity)
    THEN (IF identity = PosInf THEN N(IInfoMax(np_acc_dtype))
          ELSE N(IInfoMin(np_acc_dtype)))
    ELSE identity

\* node: [scalar_op, identity (op.scalar_op.identity), axis_none, axis
\* (op.axis), acc_dtype (op.acc_dtype or "None"), ndim, out_dtype].
numba_funcify_CAReduce(node, conv) ==
    LET axes == IF node.axis_none THEN [i \in 1..node.ndim |-> i - 1] ELSE node.axis
        acc_dtype == IF node.acc_dtype # "None" THEN node.acc_dtype ELSE node.out_dtype
        scalar_op_identity ==
            IdentityArray(SaturatedIdentity(node.identity, acc_dtype), acc_dtype, conv)
    IN IF scalar_op_identity.kind = "error" THEN scalar_op_identity
       ELSE create_multiaxis_reducer(node.scalar_op, scalar_op_identity.data[1],
                                     axes, node.ndim, node.out_dtype)

(***************************************************************************)
(* Elementwise arithmetic with numpy broadcasting                          *)
(***************************************************************************)
Max2(a, b) == IF a < b THEN b ELSE a

\* shape padded with leading 1s to rank n
PadShape(shape, n) == [i \in 1..(n - Len(shape)) |-> 1] \o shape

Broadcastable(s1, s2) ==
    LET n == Max2(Len(s1), Len(s2))
        p1 == PadShape(s1, n)
        p2 == PadShape(s2, n)
    IN \A i \in 1..n : p1[i] = p2[i] \/ p1[i] = 1 \/ p2[i] = 1

BroadcastShape(s1, s2) ==
    LET n == Max2(Len(s1), Len(s2))
        p1 == PadShape(s1, n)
        p2 == PadShape(s2, n)
    IN [i \in 1..n |-> IF p1[i] = 1 THEN p2[i] ELSE p1[i]]

\* The cell of a that takes part in the broadcast cell idx (rank n).
BroadcastCell(a, idx) ==
    LET n == Len(idx)
        r == Len(a.shape)
    IN Cell(a, [i \in 1..r |-> IF a.shape[i] = 1 THEN 0 ELSE idx[n - r + i]])

\* The numpy binary operators of the kernels' array expressions.
ArrayOp(op, u, v) ==
    CASE op = "-" -> QSub(u, v)
      [] op = "*" -> QMul(u, v)
      [] op = "/" -> QDiv(u, v)

\* op applied to every pair of broadcast cells of a and b.
Map2(op, a, b) ==
    IF a.kind = "error" THEN a
    ELSE IF b.kind = "error" THEN b
    ELSE IF ~Broadcastable(a.shape, b.shape) THEN Err("ValueError")
    ELSE LET shape == BroadcastShape(a.shape, b.shape)
             data == [j \in 1..Prod(shape) |->
                        LET idx == Unravel(j - 1, shape)
                        IN ArrayOp(op, BroadcastCell(a, idx), BroadcastCell(b, idx))]
         IN IF a.kind = "scalar" /\ b.kind = "scalar" THEN Scalar(data[1])
            ELSE Arr(shape, data)

\* numpy.exp, to the base 2 on the integers so that the values stay
\* rational: exp(0) = 1, exp(a + b) = exp(a) * exp(b), exp(-inf) = 0.
Exp(a) ==
    IF a = NegInf THEN N(0)
    ELSE IF ~IsFinite(a) \/ ~IsInteger(a) THEN a
    ELSE IF a[1] >= 0 THEN N(Pow2(a[1])) ELSE Q(1, Pow2(-a[1]))

\* numpy.exp of every cell
np_exp(a) ==
    IF a.kind = "error" THEN a
    ELSE [a EXCEPT !.data = [j \in DOMAIN a.data |-> Exp(a.data[j])]]

RECURSIVE SeqMax(_)
SeqMax(d) ==
    IF Len(d) = 1 THEN d[1]
    ELSE LET m == SeqMax(Tail(d)) IN IF QLess(Head(d), m) THEN m ELSE Head(d)

RECURSIVE SeqSum(_)
SeqSum(d) == IF d = <<>> THEN N(0) ELSE QAdd(Head(d), SeqSum(Tail(d)))

\* numpy.max and numpy.sum over all cells
np_max(x) == IF x.data = <<>> THEN Err("ValueError") ELSE Scalar(SeqMax(x.data))

np_sum(x) == Scalar(SeqSum(x.data))

(***************************************************************************)
(* numba_funcify_Softmax, numba_funcify_SoftmaxGrad,                       *)
(* numba_funcify_LogSoftmax                                                *)
(***************************************************************************)
\* node: [ndim, axis_none, axis, dtype]
numba_funcify_Softmax(node) ==
    IF node.axis_none
    THEN [kind |-> "softmax", axis_none |-> TRUE, ndim |-> node.ndim]
    ELSE IF normalize_axis_index(node.axis, node.ndim) = BadAxis THEN AxisError(node.axis, node.ndim)
    ELSE LET axis == normalize_axis_index(node.axis, node.ndim)
         IN [kind |-> "softmax", axis_none |-> FALSE, ndim |-> node.ndim, axis |-> axis,
             reduce_max |-> create_axis_reducer("ScalarMaximum", NegInf, axis,
                                                node.ndim, node.dtype, TRUE),
             reduce_sum |-> create_axis_reducer("Add", N(0), axis,
                                                node.ndim, node.dtype, TRUE)]

numba_funcify_LogSoftmax(node) ==
    IF node.axis_none
    THEN [kind |-> "log_softmax", axis_none |-> TRUE, ndim |-> node.ndim]
    ELSE IF normalize_axis_index(node.axis, node.ndim) = BadAxis THEN AxisError(node.axis, node.ndim)
    ELSE LET axis == normalize_axis_index(node.axis, node.ndim)
         IN [kind |-> "log_softmax", axis_none |-> FALSE, ndim |-> node.ndim, axis |-> axis,
             reduce_max |-> create_axis_reducer("ScalarMaximum", NegInf, axis,
                                                node.ndim, node.dtype, TRUE),
             reduce_sum |-> create_axis_reducer("Add", N(0), axis,
                                                node.ndim, node.dtype, TRUE)]

numba_funcify_SoftmaxGrad(node) ==
    IF node.axis_none
    THEN [kind |-> "softmax_grad", axis_none |-> TRUE, ndim |-> node.ndim]
    ELSE IF normalize_axis_index(node.axis, node.ndim) = BadAxis THEN AxisError(node.axis, node.ndim)
    ELSE LET axis == normalize_axis_index(node.axis, node.ndim)
         IN [kind |-> "softmax_grad", axis_none |-> FALSE, ndim |-> node.ndim, axis |-> axis,
             reduce_sum |-> create_axis_reducer("Add", N(0), axis,
                                                node.ndim, node.dtype, TRUE)]

\* reduce_max(x) and reduce_sum(x) of the kernel k: numpy.max and numpy.sum
\* when the axis is None, the single-axis reducers built with keepdims
\* otherwise.
call_reduce_max(k, x) ==
    IF k.axis_none THEN np_max(x) ELSE careduce_axis(k.reduce_max, x, 0)

call_reduce_sum(k, x) ==
    IF x.kind = "error" THEN x
    ELSE IF k.axis_none THEN np_sum(x) ELSE careduce_axis(k.reduce_sum, x, 0)

\* softmax_py_fn without the division by the sum
softmax_py_fn_unnormalised(k, x) ==
    np_exp(Map2("-", x, call_reduce_max(k, x)))

\* w = reduce_sum(e_x); sm = e_x / w
softmax_sm(k, e_x) == Map2("/", e_x, call_reduce_sum(k, e_x))

\* softmax_py_fn(x) of the kernel k: z = reduce_max(x); e_x = np.exp(x - z)
softmax_py_fn(k, x) ==
    softmax_sm(k, np_exp(Map2("-", x, call_reduce_max(k, x))))

\* dx = dy_times_sm - sum_dy_times_sm * sm
softmax_grad_dx(k, dy_times_sm, sm) ==
    Map2("-", dy_times_sm, Map2("*", call_reduce_sum(k, dy_times_sm), sm))

\* softmax_grad_py_fn(dy, sm) of the kernel k
softmax_grad_py_fn(k, dy, sm) ==
    softmax_grad_dx(k, Map2("*", dy, sm), sm)

\* numpy.log, to the base 2 as Exp is, rounded down to an integer so that
\* the values stay rational: log(0) = -inf, log of a negative number is nan.
RECURSIVE FloorLog2(_)
FloorLog2(a) ==
    IF QLess(a, N(1)) THEN FloorLog2(QMul(a, N(2))) - 1
    ELSE IF QLess(a, N(2)) THEN 0
    ELSE FloorLog2(QDiv(a, N(2))) + 1

Log(a) ==
    IF a = NaN \/ a = PosInf THEN a
    ELSE IF a = N(0) THEN NegInf
    ELSE IF QLess(a, N(0)) THEN NaN
    ELSE N(FloorLog2(a))

np_log(a) ==
    IF a.kind = "error" THEN a
    ELSE [a EXCEPT !.data = [j \in DOMAIN a.data |-> Log(a.data[j])]]

\* lsm = xdev - np.log(reduce_sum(np.exp(xdev)))
log_softmax_lsm(k, xdev) ==
    Map2("-", xdev, np_log(call_reduce_sum(k, np_exp(xdev))))

\* log_softmax_py_fn(x) of the kernel k: xdev = x - reduce_max(x)
log_softmax_py_fn(k, x) ==
    log_softmax_lsm(k, Map2("-", x, call_reduce_max(k, x)))

\* A reference to the buffer buf of the memory, seen with the given shape.
Ref(buf, shape) == [kind |-> "array", buf |-> buf, shape |-> shape]

Load(m, r) == IF r.kind = "array" THEN Arr(r.shape, m[r.buf]) ELSE r

NoKernel == [kind |-> "none"]

(***************************************************************************)
(* create_vectorize_func, numba_funcify_Elemwise                           *)
(***************************************************************************)
\* The scalar operators of the Elemwise nodes and their Python functions,
\* as numba_funcify(op.scalar_op) returns them.
ElemwiseOps == {"Add", "Sub", "Mul", "Neg"}

Arity(op) == IF op = "Neg" THEN 1 ELSE 2

scalar_op_fn(op, ins) ==
    CASE op = "Add" -> QAdd(ins[1], ins[2])
      [] op = "Sub" -> QSub(ins[1], ins[2])
      [] op = "Mul" -> QMul(ins[1], ins[2])
      [] op = "Neg" -> QNeg(ins[1])

\* create_vectorize_func vectorizing the scalar function whatever the
\* number of outputs of the node
create_vectorize_func_any(node) ==
    [kind |-> "ufunc", scalar_op |-> node.scalar_op, dtype |-> node.dtype]

\* node: [scalar_op, nout, ndim, dtype, inplace_pattern]
create_vectorize_func(node) ==
    IF node.nout > 1
    THEN ErrMsg("NotImplementedError",
                "Multi-output Elemwise Ops are not supported by the Numba backend")
    ELSE [kind |-> "ufunc", scalar_op |-> node.scalar_op, dtype |-> node.dtype]

numba_funcify_Elemwise(node) ==
    LET elemwise_fn == create_vectorize_func(node)
    IN IF elemwise_fn.kind = "error" THEN elemwise_fn
       ELSE IF node.inplace_pattern # <<>>
       THEN [kind |-> "elemwise_inplace", elemwise_fn |-> elemwise_fn,
             input_idx |-> node.inplace_pattern[1],
             scalar_target |-> ~(node.ndim > 0)]
       ELSE elemwise_fn

RECURSIVE BroadcastAll(_)
BroadcastAll(shapes) ==
    IF Len(shapes) = 1 THEN [ok |-> TRUE, shape |-> shapes[1]]
    ELSE LET rest == BroadcastAll(Tail(shapes))
         IN IF rest.ok /\ Broadcastable(Head(shapes), rest.shape)
            THEN [ok |-> TRUE, shape |-> BroadcastShape(Head(shapes), rest.shape)]
            ELSE [ok |-> FALSE, shape |-> <<>>]

\* The element of the argument a read by the loop at the broadcast index idx,
\* from the memory m as it is at that step.
ReadArg(m, a, idx) ==
    IF a.kind = "array" THEN BroadcastCell(Load(m, a), idx) ELSE a.data[1]

\* The loop of the vectorized function over the cells j..n of the output.
RECURSIVE UfuncLoop(_, _, _, _, _, _)
UfuncLoop(m, fn, ins, out, shape, j) ==
    IF j > Prod(shape) THEN m
    ELSE LET idx == Unravel(j - 1, shape)
             v == scalar_op_fn(fn.scalar_op, [i \in 1..Len(ins) |-> ReadArg(m, ins[i], idx)])
             w == CastTo(fn.dtype, v, 0)
         IN UfuncLoop([m EXCEPT ![out.buf][j] = w], fn, ins, out, shape, j + 1)

\* elemwise_fn(*ins) and elemwise_fn(*ins, out): the memory afterwards and
\* the value returned.
ufunc_call(m, fn, ins, out) ==
    LET b == BroadcastAll([i \in 1..Len(ins) |-> ins[i].shape])
    IN IF ~b.ok THEN [mem |-> m, ret |-> Err("ValueError")]
       ELSE IF out.kind = "none"
       THEN IF \A i \in 1..Len(ins) : ins[i].kind = "scalar"
            THEN [mem |-> m,
                  ret |-> Scalar(CastTo(fn.dtype,
                             scalar_op_fn(fn.scalar_op, [i \in 1..Len(ins) |-> ins[i].data[1]]), 0))]
            ELSE LET new == Ref(Len(m) + 1, b.shape)
                     m1 == Append(m, [j \in 1..Prod(b.shape) |-> N(0)])
                 IN [mem |-> UfuncLoop(m1, fn, ins, new, b.shape, 1), ret |-> new]
       ELSE IF out.shape # b.shape THEN [mem |-> m, ret |-> Err("ValueError")]
       ELSE [mem |-> UfuncLoop(m, fn, ins, out, b.shape, 1), ret |-> out]

\* np.asarray(x): an array is returned as it is, without a copy; a scalar
\* becomes a new 0-d array holding it.
np_asarray(m, x) ==
    IF x.kind = "array" THEN [mem |-> m, ret |-> x]
    ELSE [mem |-> Append(m, x.data), ret |-> Ref(Len(m) + 1, <<>>)]

\* The in-place wrapper passing its first argument as the output whatever
\* the in-place pattern names
elemwise_call_first(m, k, ins) ==
    IF k.kind = "ufunc" THEN ufunc_call(m, k, ins, NoKernel)
    ELSE IF ~k.scalar_target
    THEN ufunc_call(m, k.elemwise_fn, ins, ins[1])
    ELSE LET x == ins[1]
             r == ufunc_call(np_asarray(m, x).mem, k.elemwise_fn, ins, np_asarray(m, x).ret)
         IN IF r.ret.kind = "error" THEN r
            ELSE [mem |-> r.mem, ret |-> Scalar(Load(r.mem, r.ret).data[1])]

\* The in-place wrapper of a rank-0 input returning the array written,
\* without extracting its element
elemwise_call_no_item(m, k, ins) ==
    IF k.kind = "ufunc" THEN ufunc_call(m, k, ins, NoKernel)
    ELSE IF ~k.scalar_target
    THEN ufunc_call(m, k.elemwise_fn, ins, ins[k.input_idx + 1])
    ELSE LET x == ins[k.input_idx + 1]
         IN ufunc_call(np_asarray(m, x).mem, k.elemwise_fn, ins, np_asarray(m, x).ret)

\* The generated in-place wrapper of the kernel k, or the vectorized
\* function itself.
elemwise_call(m, k, ins) ==
    IF k.kind = "ufunc" THEN ufunc_call(m, k, ins, NoKernel)
    ELSE IF ~k.scalar_target
    THEN ufunc_call(m, k.elemwise_fn, ins, ins[k.input_idx + 1])
    ELSE LET x == ins[k.input_idx + 1]
             x_scalar == np_asarray(m, x)
             r == ufunc_call(x_scalar.mem, k.elemwise_fn, ins, x_scalar.ret)
         IN IF r.ret.kind = "error" THEN r
            ELSE [mem |-> r.mem, ret |-> Scalar(Load(r.mem, r.ret).data[1])]

(***************************************************************************)
(* create_axis_apply_fn, numba_funcify_MaxAndArgmax                        *)
(***************************************************************************)
\* transpose reversing the axes whatever the permutation asked for
Transpose_reversed(x, perm) ==
    LET n == Len(perm)
        shape == [i \in 1..n |-> x.shape[n + 1 - i]]
        src(idx) == [d \in 1..n |-> idx[n + 1 - d]]
    IN Arr(shape, [j \in 1..Prod(shape) |-> Cell(x, src(Unravel(j - 1, shape)))])

\* x.transpose(perm): axis i of the result is axis perm[i] of x; the result
\* is laid out in row-major order (np.ascontiguousarray).
Transpose(x, perm) ==
    LET n == Len(perm)
        shape == [i \in 1..n |-> x.shape[perm[i] + 1]]
        src(idx) == [d \in 1..n |-> idx[CHOOSE i \in 1..n : perm[i] + 1 = d]]
    IN Arr(shape, [j \in 1..Prod(shape) |-> Cell(x, src(Unravel(j - 1, shape)))])

\* x.reshape(new_shape) of a contiguous array
Reshape(x, new_shape) == Arr(new_shape, x.data)

\* numpy.argmax of a vector: the first position of the maximum.
np_argmax(row) ==
    IF row = <<>> THEN Err("ValueError")
    ELSE Scalar(N((CHOOSE i \in DOMAIN row :
                      /\ \A j \in DOMAIN row : ~QLess(row[i], row[j])
                      /\ \A j \in 1..(i - 1) : QLess(row[j], row[i])) - 1))

\* create_axis_apply_fn(np.argmax, axis, ndim, np.int64)
create_axis_apply_fn(axis, ndim) ==
    IF normalize_axis_index(axis, ndim) = BadAxis THEN AxisError(axis, ndim)
    ELSE LET a == normalize_axis_index(axis, ndim)
         IN [kind |-> "axis_apply",
             reaxis_first |-> SelectSeq([i \in 1..ndim |-> i - 1], LAMBDA i : i # a) \o <<a>>]

axis_apply_fn(k, x) ==
    LET x_reaxis == Transpose(x, k.reaxis_first)
        n == Len(x_reaxis.shape)
        len == x_reaxis.shape[n]
        res_shape == SubSeq(x_reaxis.shape, 1, n - 1)
        v(m) == np_argmax(SubSeq(x_reaxis.data, (m - 1) * len + 1, m * len))
    IN IF \E m \in 1..Prod(res_shape) : v(m).kind = "error" THEN Err("ValueError")
       ELSE Arr(res_shape, [m \in 1..Prod(res_shape) |-> v(m).data[1]])

\* node: [ndim, dtype, axes]
numba_funcify_MaxAndArgmax(node) ==
    IF node.ndim = 0 THEN [kind |-> "maxandargmax", ndim |-> 0]
    ELSE LET axes == node.axes
             keep_axes == SelectSeq([i \in 1..node.ndim |-> i - 1],
                                    LAMBDA i : i \notin SeqToSet(axes))
             reduce_max == create_multiaxis_reducer("ScalarMaximum", NegInf, axes,
                                                    node.ndim, node.dtype)
             reduced_x_ndim == node.ndim - Len(axes) + 1
             argmax_axis == create_axis_apply_fn(reduced_x_ndim - 1, reduced_x_ndim)
         IN IF reduce_max.kind = "error" THEN reduce_max
            ELSE IF argmax_axis.kind = "error" THEN argmax_axis
            ELSE [kind |-> "maxandargmax", ndim |-> node.ndim, dtype |-> node.dtype,
                  reduce_max |-> reduce_max, argmax_axis |-> argmax_axis,
                  reaxis_order |-> keep_axes \o axes, n_keep |-> Len(keep_axes)]

Tuple(a, b) ==
    IF a.kind = "error" THEN a
    ELSE IF b.kind = "error" THEN b
    ELSE [kind |-> "tuple", items |-> <<a, b>>]

maxandargmax(k, x, ub) ==
    IF k.ndim = 0 THEN Tuple(x, Scalar(N(0)))
    ELSE LET max_res == careduce(k.reduce_max, x, ub)
             transposed_x == Transpose(x, k.reaxis_order)
             kept_shape == SubSeq(transposed_x.shape, 1, k.n_keep)
             reduced_shape == SubSeq(transposed_x.shape, k.n_keep + 1, k.ndim)
             new_shape == kept_shape \o <<Prod(reduced_shape)>>
             reshaped_x == Reshape(transposed_x, new_shape)
             max_idx_res == axis_apply_fn(k.argmax_axis, reshaped_x)
         IN Tuple(max_res, max_idx_res)

(***************************************************************************)
(* DimShuffle and numba_funcify_DimShuffle                                 *)
(***************************************************************************)
\* The entry 'x' of a new_order: a broadcastable axis to insert.
X == -1

\* The operator made without looking for an input axis named twice
DimShuffle_unchecked(input_broadcastable, new_order, inplace) ==
    LET n == Len(input_broadcastable)
        shuffle == SelectSeq(new_order, LAMBDA a : a # X)
        drop == SelectSeq([i \in 1..n |-> i - 1], LAMBDA a : a \notin SeqToSet(new_order))
        augment == SelectSeq([i \in 1..Len(new_order) |-> i - 1],
                             LAMBDA i : new_order[i + 1] = X)
    IN [kind |-> "DimShuffle", input_broadcastable |-> input_broadcastable,
        new_order |-> new_order, shuffle |-> shuffle, drop |-> drop,
        transposition |-> shuffle \o drop, augment |-> augment, inplace |-> inplace]

\* The DimShuffle operator made from the broadcastable pattern of its input
\* and new_order: shuffle are the input axes kept, in their new order, drop
\* the input axes left out, augment the positions of the inserted axes.  An
\* input axis named twice is refused.
DimShuffle(input_broadcastable, new_order, inplace) ==
    LET n == Len(input_broadcastable)
        shuffle == SelectSeq(new_order, LAMBDA a : a # X)
        drop == SelectSeq([i \in 1..n |-> i - 1], LAMBDA a : a \notin SeqToSet(new_order))
        augment == SelectSeq([i \in 1..Len(new_order) |-> i - 1],
                             LAMBDA i : new_order[i + 1] = X)
    IN IF \E i, j \in 1..Len(new_order) : i < j /\ new_order[i] # X /\ new_order[i] = new_order[j]
       THEN ErrMsg("ValueError", "may not appear twice")
       ELSE [kind |-> "DimShuffle", input_broadcastable |-> input_broadcastable,
             new_order |-> new_order, shuffle |-> shuffle, drop |-> drop,
             transposition |-> shuffle \o drop, augment |-> augment, inplace |-> inplace]

\* node: [static_shape], the shape of the output's type: a list with a
\* length or None for every axis
None == -1

numba_funcify_DimShuffle(op, node) ==
    [kind |-> "dimshuffle",
     shuffle |-> op.shuffle,
     transposition |-> op.transposition,
     augment |-> op.augment,
     inplace |-> op.inplace,
     ndim_new_shape |-> Len(op.shuffle) + Len(op.augment),
     no_transpose |-> \A i \in 1..Len(op.transposition) : op.transposition[i] = i - 1,
     static |-> \A i \in 1..Len(node.static_shape) : node.static_shape[i] # None,
     shape |-> node.static_shape]

\* find_shape putting the lengths at the leading positions, whatever the
\* inserted axes are
find_shape_loop_leading(k, array_shape, shape, i, j) ==
    [p \in 1..k.ndim_new_shape |-> IF p <= Len(array_shape) THEN array_shape[p] ELSE 1]

\* find_shape(array_shape) of the kernel k
RECURSIVE find_shape_loop(_, _, _, _, _)
find_shape_loop(k, array_shape, shape, i, j) ==
    IF i >= k.ndim_new_shape THEN shape
    ELSE IF i \notin SeqToSet(k.augment)
    THEN find_shape_loop(k, array_shape, [shape EXCEPT ![i + 1] = array_shape[j + 1]],
                         i + 1, j + 1)
    ELSE find_shape_loop(k, array_shape, shape, i + 1, j)

find_shape(k, array_shape) ==
    LET shape_template == [i \in 1..k.ndim_new_shape |-> 1]
    IN IF Len(k.shuffle) > 0
       THEN IF k.static THEN k.shape
            ELSE find_shape_loop(k, array_shape, shape_template, 0, 0)
       ELSE shape_template

\* Whether x.transpose(perm) is laid out as x is.
SameLayout(shape, perm) ==
    LET iota == Arr(shape, [j \in 1..Prod(shape) |-> j])
    IN Transpose(iota, perm).data = iota.data

\* dimshuffle returning the reshaped array without the copy of
\* inplace=false
dimshuffle_no_copy(k, m, a, copies) ==
    LET m0 == IF a.kind = "scalar" THEN Append(m, a.data) ELSE m
        x0 == IF a.kind = "scalar" THEN Ref(Len(m) + 1, <<>>) ELSE a
        x == IF k.no_transpose THEN Load(m0, x0) ELSE Transpose(Load(m0, x0), k.transposition)
        shuffle_shape == SubSeq(x.shape, 1, Len(k.shuffle))
        new_shape == find_shape(k, shuffle_shape)
        is_view == k.no_transpose \/ (SameLayout(x0.shape, k.transposition) /\ ~copies)
    IN IF k.ndim_new_shape > 0
       THEN IF Prod(new_shape) # Prod(x.shape) THEN [mem |-> m, ret |-> Err("ValueError")]
            ELSE IF is_view
            THEN [mem |-> m0, ret |-> Ref(x0.buf, new_shape)]
            ELSE [mem |-> Append(m, x.data), ret |-> Ref(Len(m) + 1, new_shape)]
       ELSE IF Len(x.data) # 1 THEN [mem |-> m, ret |-> Err("ValueError")]
       ELSE [mem |-> m, ret |-> Scalar(x.data[1])]

\* dimshuffle(x) of the kernel k on the argument a in the memory m: the
\* memory afterwards and the value returned.  copies tells whether
\* np.ascontiguousarray copies a transposed array that is laid out as its
\* input is.
dimshuffle(k, m, a, copies) ==
    LET m0 == IF a.kind = "scalar" THEN Append(m, a.data) ELSE m
        x0 == IF a.kind = "scalar" THEN Ref(Len(m) + 1, <<>>) ELSE a
        x == IF k.no_transpose THEN Load(m0, x0) ELSE Transpose(Load(m0, x0), k.transposition)
        shuffle_shape == SubSeq(x.shape, 1, Len(k.shuffle))
        new_shape == find_shape(k, shuffle_shape)
        is_view == k.no_transpose \/ (SameLayout(x0.shape, k.transposition) /\ ~copies)
    IN IF k.ndim_new_shape > 0
       THEN IF Prod(new_shape) # Prod(x.shape) THEN [mem |-> m, ret |-> Err("ValueError")]
            ELSE IF k.inplace /\ is_view
            THEN [mem |-> m0, ret |-> Ref(x0.buf, new_shape)]
            ELSE [mem |-> Append(m, x.data), ret |-> Ref(Len(m) + 1, new_shape)]
       ELSE IF Len(x.data) # 1 THEN [mem |-> m, ret |-> Err("ValueError")]
       ELSE [mem |-> m, ret |-> Scalar(x.data[1])]

(***************************************************************************)
(* Inputs                                                                  *)
(***************************************************************************)
InputVals == {N(-1), N(0), N(2)}

\* The ranks kernels are built for.
Ranks == 0..3

\* The identities handed to the builders: 0, 1 and, for the operators whose
\* neutral element is neither, that element.
IdentityChoices(op) ==
    {N(0), N(1)}
    \cup (IF op = "ScalarMaximum" THEN {NegInf} ELSE {})
    \cup (IF op = "ScalarMinimum" THEN {PosInf} ELSE {})
    \cup (IF op = "AND" THEN {N(-1)} ELSE {})

KernelDTypes == {"int8", "float64"}

\* The scalar catalog defines the bitwise operators on integers only.
ValidOpDType(op, dtype) == op \in BitwiseOps => dtype \in IntDTypes

Shapes(rank) ==
    {s \in [1..rank -> 0..MaxDim] : Prod(s) <= MaxCells}

Arrays(rank) ==
    UNION {{Arr(s, d) : d \in [1..Prod(s) -> InputVals]} : s \in Shapes(rank)}

\* The outcomes of the undefined conversions of a call of kernel k: the
\* only non-finite value stored into an integer array is the identity.
StageUBChoices(k) ==
    IF k.dtype \in IntDTypes /\ ~IsFinite(to_scalar(k.identity))
    THEN UBOutcomes(k.dtype) ELSE {0}

UBChoices(k) ==
    IF k.kind = "careduce_axis" THEN StageUBChoices(k)
    ELSE IF k.stages = <<>> THEN {0} ELSE StageUBChoices(k.stages[1])

\* Axis tuples handed to the multi-axis builder: every tuple of at most two
\* entries (negative and out-of-range ones included) and the increasing
\* tuples of three or more axes.
AxisRange(ndim) == (-(ndim + 1))..ndim

AxesChoices(ndim) ==
    {<<>>}
    \cup {<<a>> : a \in AxisRange(ndim)}
    \cup {<<a, b>> : a \in 0..(ndim - 1), b \in AxisRange(ndim)}
    \cup {SortDesc(S) : S \in {T \in SUBSET (0..(ndim - 1)) : Cardinality(T) >= 3}}

(***************************************************************************)
(* State                                                                   *)
(***************************************************************************)
\* An array held in memory: the cells of buffer `buf` in row-major order.
Init ==
    /\ pc = "idle"
    /\ req = NoKernel
    /\ kernel = NoKernel
    /\ mem = <<>>
    /\ args = <<>>
    /\ ret = NoKernel

\* The result v of a kernel call, stored: a new buffer for an array.
Returned(m, v) ==
    IF v.kind = "array" THEN Ref(Len(m) + 1, v.shape) ELSE v

\* The result written over the first input when it has as many cells
Stored_over_input(m, v) ==
    IF v.kind # "array" THEN m
    ELSE IF m # <<>> /\ Len(m[1]) = Len(v.data) THEN [m EXCEPT ![1] = v.data]
    ELSE Append(m, v.data)

Stored(m, v) ==
    IF v.kind = "array" THEN Append(m, v.data) ELSE m

\* A composed reducer without a stage is `return x`: what it returns is its
\* argument a itself, and nothing is allocated.
ReducerStored(m, k, v) ==
    IF k.kind = "careduce_multi" /\ k.stages = <<>> THEN m ELSE Stored(m, v)

ReducerReturned(m, k, a, v) ==
    IF k.kind = "careduce_multi" /\ k.stages = <<>> THEN a ELSE Returned(m, v)

BuildAxisReducer ==
    /\ pc = "idle"
    /\ \E op \in RegisteredOps, ndim \in Ranks,
          dtype \in KernelDTypes, keepdims \in BOOLEAN :
         \E axis \in AxisRange(ndim), identity \in IdentityChoices(op) :
            /\ ValidOpDType(op, dtype)
            /\ kernel' = create_axis_reducer(op, identity, axis, ndim, dtype, keepdims)
            /\ req' = [builder |-> "create_axis_reducer", axis_none |-> FALSE,
                       axis |-> axis, ndim |-> ndim]
    /\ pc' = "built"
    /\ UNCHANGED <<mem, args, ret>>

BuildMultiaxisReducer ==
    /\ pc = "idle"
    /\ \E op \in RegisteredOps, ndim \in Ranks, dtype \in KernelDTypes :
         \E axes \in AxesChoices(ndim), identity \in IdentityChoices(op) :
            /\ ValidOpDType(op, dtype)
            /\ kernel' = create_multiaxis_reducer(op, identity, axes, ndim, dtype)
            /\ req' = [builder |-> "create_multiaxis_reducer"]
    /\ pc' = "built"
    /\ UNCHANGED <<mem, args, ret>>

\* A call of a reducer kernel on an array of the rank it was built for.
CallReducer ==
    /\ pc = "built"
    /\ kernel.kind \in {"careduce_axis", "careduce_multi"}
    /\ \E x \in Arrays(kernel.ndim), ub \in UBChoices(kernel) :
         LET m == <<x.data>>
             v == careduce(kernel, Load(m, Ref(1, x.shape)), ub)
         IN /\ args' = <<Ref(1, x.shape)>>
            /\ mem' = ReducerStored(m, kernel, v)
            /\ ret' = ReducerReturned(m, kernel, Ref(1, x.shape), v)
    /\ pc' = "called"
    /\ UNCHANGED <<req, kernel>>

\* The CAReduce nodes handed to the builder.
AccDTypes == {"None", "int16", "uint8", "float64"}

CAReduceAxes(ndim) ==
    {<<a>> : a \in 0..(ndim - 1)} \cup (IF ndim >= 2 THEN {<<0, 1>>} ELSE {})

CAReduceNodes ==
    UNION {UNION {
        {[scalar_op |-> op, identity |-> identity, axis_none |-> FALSE, axis |-> axes,
          acc_dtype |-> acc, ndim |-> ndim, out_dtype |-> out] :
             identity \in IdentityChoices(op), axes \in CAReduceAxes(ndim),
             acc \in AccDTypes, out \in {d \in KernelDTypes : ValidOpDType(op, d)}}
        \cup
        {[scalar_op |-> op, identity |-> identity, axis_none |-> TRUE, axis |-> <<>>,
          acc_dtype |-> acc, ndim |-> ndim, out_dtype |-> out] :
             identity \in IdentityChoices(op),
             acc \in AccDTypes, out \in {d \in KernelDTypes : ValidOpDType(op, d)}}
        : op \in RegisteredOps} : ndim \in 0..2}

BuildCAReduce ==
    /\ pc = "idle"
    /\ \E node \in CAReduceNodes :
         LET acc == IF node.acc_dtype # "None" THEN node.acc_dtype ELSE node.out_dtype
         IN \E conv \in (IF acc \in IntDTypes /\ ~IsFinite(SaturatedIdentity(node.identity, acc))
                         THEN NonFiniteToInt(acc) ELSE {Scalar(N(0))}) :
              /\ kernel' = numba_funcify_CAReduce(node, conv)
              /\ req' = [builder |-> "numba_funcify_CAReduce", node |-> node]
    /\ pc' = "built"
    /\ UNCHANGED <<mem, args, ret>>

NextCAReduce == BuildCAReduce \/ CallReducer

SpecCAReduce == Init /\ [][NextCAReduce]_vars

\* The nodes of the softmax family: a floating input of rank ndim and the
\* axis of the operator (None or an integer).
SoftmaxNodes ==
    UNION {{[ndim |-> ndim, axis_none |-> FALSE, axis |-> axis, dtype |-> "float64"] :
               axis \in AxisRange(ndim)}
           \cup {[ndim |-> ndim, axis_none |-> TRUE, axis |-> 0, dtype |-> "float64"]}
           : ndim \in Ranks}

BuildSoftmax ==
    /\ pc = "idle"
    /\ \E node \in SoftmaxNodes :
         /\ kernel' = numba_funcify_Softmax(node)
         /\ req' = [builder |-> "numba_funcify_Softmax", axis_none |-> node.axis_none,
                    axis |-> node.axis, ndim |-> node.ndim]
    /\ pc' = "built"
    /\ UNCHANGED <<mem, args, ret>>

BuildLogSoftmax ==
    /\ pc = "idle"
    /\ \E node \in SoftmaxNodes :
         /\ kernel' = numba_funcify_LogSoftmax(node)
         /\ req' = [builder |-> "numba_funcify_LogSoftmax", axis_none |-> node.axis_none,
                    axis |-> node.axis, ndim |-> node.ndim]
    /\ pc' = "built"
    /\ UNCHANGED <<mem, args, ret>>

BuildSoftmaxGrad ==
    /\ pc = "idle"
    /\ \E node \in SoftmaxNodes :
         /\ kernel' = numba_funcify_SoftmaxGrad(node)
         /\ req' = [builder |-> "numba_funcify_SoftmaxGrad", axis_none |-> node.axis_none,
                    axis |-> node.axis, ndim |-> node.ndim]
    /\ pc' = "built"
    /\ UNCHANGED <<mem, args, ret>>

CallSoftmax ==
    /\ pc = "built"
    /\ kernel.kind = "softmax"
    /\ \E x \in Arrays(kernel.ndim) :
         LET m == <<x.data>>
             v == softmax_py_fn(kernel, Load(m, Ref(1, x.shape)))
         IN /\ args' = <<Ref(1, x.shape)>>
            /\ mem' = Stored(m, v)
            /\ ret' = Returned(m, v)
    /\ pc' = "called"
    /\ UNCHANGED <<req, kernel>>

NextSoftmax ==
    \/ BuildAxisReducer
    \/ BuildSoftmax
    \/ BuildLogSoftmax
    \/ BuildSoftmaxGrad
    \/ CallSoftmax

SpecSoftmax == Init /\ [][NextSoftmax]_vars

\* The Elemwise nodes handed to the builder: all the inputs have the rank
\* and the dtype of the output; an in-place node names the input it updates.
ElemwiseRanks == 0..2

ElemwiseNodes ==
    UNION {{[scalar_op |-> op, nout |-> nout, ndim |-> ndim, dtype |-> dtype,
             inplace_pattern |-> ip] :
               nout \in 1..3, ndim \in ElemwiseRanks, dtype \in KernelDTypes,
               ip \in {<<>>} \cup {<<i>> : i \in 0..(Arity(op) - 1)}}
           : op \in ElemwiseOps}

BuildElemwise ==
    /\ pc = "idle"
    /\ \E node \in ElemwiseNodes :
         /\ kernel' = numba_funcify_Elemwise(node)
         /\ req' = [builder |-> "numba_funcify_Elemwise", node |-> node]
    /\ pc' = "built"
    /\ UNCHANGED <<mem, args, ret>>

ArraysOfShape(shape) == {Arr(shape, d) : d \in [1..Prod(shape) -> InputVals]}

\* The shapes that broadcast to shape.
ShapesBelow(shape) ==
    {s \in [1..Len(shape) -> 0..MaxDim] : \A i \in 1..Len(shape) : s[i] \in {1, shape[i]}}

\* The inputs of a call of the kernel built for node, for an output of the
\* given shape: the updated input of an in-place node has the shape of the
\* output, every other input broadcasts to it.
ElemwiseInputs(node, shape) ==
    LET n == Arity(node.scalar_op)
        shapes(i) == IF node.inplace_pattern = <<i - 1>> THEN {shape} ELSE ShapesBelow(shape)
        choices(i) == UNION {ArraysOfShape(s) : s \in shapes(i)}
    IN IF n = 1 THEN {<<x>> : x \in choices(1)}
       ELSE {<<x, y>> : x \in choices(1), y \in choices(2)}

\* The caller allocates the inputs, and for an in-place kernel passes a
\* copy of the input to update; rank-0 inputs are passed as scalars or as
\* 0-d arrays.
PrepareElemwise ==
    /\ pc = "built"
    /\ kernel.kind \in {"ufunc", "elemwise_inplace"}
    /\ LET node == req.node
       IN \E shape \in Shapes(node.ndim) : \E xs \in ElemwiseInputs(node, shape) :
          \E as_scalar \in (IF node.ndim = 0 THEN BOOLEAN ELSE {FALSE}) :
            LET n == Len(xs)
                inplace == node.inplace_pattern # <<>>
                target == IF inplace THEN node.inplace_pattern[1] + 1 ELSE 0
            IN IF as_scalar
               THEN /\ mem' = <<>>
                    /\ args' = [i \in 1..n |-> Scalar(xs[i].data[1])]
               ELSE /\ mem' = [i \in 1..n |-> xs[i].data]
                              \o (IF inplace THEN <<xs[target].data>> ELSE <<>>)
                    /\ args' = [i \in 1..n |->
                                  IF i = target THEN Ref(n + 1, xs[i].shape)
                                  ELSE Ref(i, xs[i].shape)]
    /\ pc' = "ready"
    /\ UNCHANGED <<req, kernel, ret>>

CallElemwise ==
    /\ pc = "ready"
    /\ kernel.kind \in {"ufunc", "elemwise_inplace"}
    /\ LET r == elemwise_call(mem, kernel, args)
       IN /\ mem' = r.mem
          /\ ret' = r.ret
    /\ pc' = "called"
    /\ UNCHANGED <<req, kernel, args>>

NextElemwise ==
    \/ BuildElemwise
    \/ PrepareElemwise
    \/ CallElemwise

SpecElemwise == Init /\ [][NextElemwise]_vars

\* The MaxAndArgmax nodes: the operator holds its axes as an increasing
\* tuple of distinct axes of the input.
RECURSIVE SortAscending(_)
SortAscending(S) ==
    IF S = {} THEN <<>>
    ELSE LET m == CHOOSE a \in S : \A b \in S : a <= b
         IN <<m>> \o SortAscending(S \ {m})

MaxAndArgmaxNodes ==
    UNION {{[ndim |-> ndim, dtype |-> dtype, axes |-> SortAscending(S)] :
               dtype \in KernelDTypes,
               S \in {T \in SUBSET (0..(ndim - 1)) : ndim = 0 \/ T # {}}}
           : ndim \in Ranks}

BuildMaxAndArgmax ==
    /\ pc = "idle"
    /\ \E node \in MaxAndArgmaxNodes :
         /\ kernel' = numba_funcify_MaxAndArgmax(node)
         /\ req' = [builder |-> "numba_funcify_MaxAndArgmax", node |-> node]
    /\ pc' = "built"
    /\ UNCHANGED <<mem, args, ret>>

\* The array of the documented example.
ExampleArray == Arr(<<2, 3>>, <<N(3), N(1), N(2), N(0), N(5), N(4)>>)

MaxAndArgmaxInputs(ndim) ==
    Arrays(ndim) \cup (IF ndim = 2 THEN {ExampleArray} ELSE {})

\* The results of a call, stored: a new buffer for every array returned.
RECURSIVE StoredAll(_, _)
StoredAll(m, items) ==
    IF items = <<>> THEN m ELSE StoredAll(Stored(m, Head(items)), Tail(items))

RECURSIVE ReturnedAll(_, _)
ReturnedAll(m, items) ==
    IF items = <<>> THEN <<>>
    ELSE <<Returned(m, Head(items))>> \o ReturnedAll(Stored(m, Head(items)), Tail(items))

CallMaxAndArgmax ==
    /\ pc = "built"
    /\ kernel.kind = "maxandargmax"
    /\ \E x \in MaxAndArgmaxInputs(kernel.ndim),
          ub \in (IF kernel.ndim > 0 THEN UBChoices(kernel.reduce_max) ELSE {0}) :
         LET m == <<x.data>>
             v == maxandargmax(kernel, Load(m, Ref(1, x.shape)), ub)
         IN /\ args' = <<Ref(1, x.shape)>>
            /\ IF v.kind = "tuple"
               THEN /\ mem' = StoredAll(m, v.items)
                    /\ ret' = [kind |-> "tuple", items |-> ReturnedAll(m, v.items)]
               ELSE /\ mem' = m
                    /\ ret' = v
    /\ pc' = "called"
    /\ UNCHANGED <<req, kernel>>

NextMaxAndArgmax == BuildMaxAndArgmax \/ CallMaxAndArgmax

SpecMaxAndArgmax == Init /\ [][NextMaxAndArgmax]_vars

\* A DimShuffle request: the broadcastable pattern of the input, a new_order
\* of at most MaxOrder input axes and 'x' entries, the in-place flag, and
\* whether the lengths of the input's type are all known (then in_shape
\* holds them).
MaxOrder == 3

OrdersOf(ndim) ==
    UNION {[1..n -> {X} \cup 0..(ndim - 1)] : n \in 0..MaxOrder}

\* The shapes an input of the given broadcastable pattern can have.
ShapesOf(input_broadcastable) ==
    {s \in Shapes(Len(input_broadcastable)) :
        \A i \in 1..Len(s) : input_broadcastable[i] => s[i] = 1}

\* The output's type of a request: an inserted or broadcastable axis has
\* length 1, another axis its known length or None.
StaticShape(r) ==
    [i \in 1..Len(r.new_order) |->
        IF r.new_order[i] = X THEN 1
        ELSE IF r.input_broadcastable[r.new_order[i] + 1] THEN 1
        ELSE IF r.known THEN r.in_shape[r.new_order[i] + 1]
        ELSE None]

\* The requests the graph can hold: only broadcastable axes are dropped,
\* and a known shape is one of the pattern.
Droppable(bc, new_order) ==
    \A a \in 0..(Len(bc) - 1) : a \notin SeqToSet(new_order) => bc[a + 1]

KnownShapes(bc, known) ==
    IF known THEN ShapesOf(bc) ELSE {[i \in 1..Len(bc) |-> 1]}

BuildDimShuffle ==
    /\ pc = "idle"
    /\ \E ndim \in Ranks :
         \E bc \in [1..ndim -> BOOLEAN], new_order \in OrdersOf(ndim) :
            /\ Droppable(bc, new_order)
            /\ \E inplace \in BOOLEAN, known \in BOOLEAN :
                 \E in_shape \in KnownShapes(bc, known) :
                    LET r == [input_broadcastable |-> bc, new_order |-> new_order,
                              inplace |-> inplace, known |-> known, in_shape |-> in_shape]
                        op == DimShuffle(bc, new_order, inplace)
                    IN /\ kernel' = IF op.kind = "error" THEN op
                                    ELSE numba_funcify_DimShuffle(
                                             op, [static_shape |-> StaticShape(r)])
                       /\ req' = [builder |-> "numba_funcify_DimShuffle", request |-> r]
    /\ pc' = "built"
    /\ UNCHANGED <<mem, args, ret>>

\* The inputs of a call: arrays of the request's pattern, and of its shape
\* when that is known.
DimShuffleInputs(r) ==
    UNION {ArraysOfShape(s) :
             s \in IF r.known THEN {r.in_shape} ELSE ShapesOf(r.input_broadcastable)}

CopyChoices(k, shape) ==
    IF k.inplace /\ ~k.no_transpose /\ SameLayout(shape, k.transposition)
    THEN BOOLEAN ELSE {FALSE}

CallDimShuffle ==
    /\ pc = "built"
    /\ kernel.kind = "dimshuffle"
    /\ \E x \in DimShuffleInputs(req.request) : \E copies \in CopyChoices(kernel, x.shape) :
         LET r == dimshuffle(kernel, <<x.data>>, Ref(1, x.shape), copies)
         IN /\ args' = <<Ref(1, x.shape)>>
            /\ mem' = r.mem
            /\ ret' = r.ret
    /\ pc' = "called"
    /\ UNCHANGED <<req, kernel>>

\* The request undoing r: every input axis is taken back from its place in
\* the output, a dropped axis is inserted again and an inserted one dropped.
InverseRequest(r, inplace) ==
    [input_broadcastable |->
        [i \in 1..Len(r.new_order) |->
            r.new_order[i] = X \/ r.input_broadcastable[r.new_order[i] + 1]],
     new_order |->
        [a \in 1..Len(r.input_broadcastable) |->
            IF a - 1 \in SeqToSet(r.new_order)
            THEN (CHOOSE i \in 1..Len(r.new_order) : r.new_order[i] = a - 1) - 1
            ELSE X],
     inplace |-> inplace,
     known |-> r.known,
     in_shape |-> [i \in 1..Len(r.new_order) |->
                     IF r.new_order[i] = X THEN 1 ELSE r.in_shape[r.new_order[i] + 1]]]

BuildInverseDimShuffle ==
    /\ pc = "called"
    /\ kernel.kind = "dimshuffle"
    /\ ret.kind # "error"
    /\ \E inplace \in BOOLEAN :
         LET r == InverseRequest(req.request, inplace)
             op == DimShuffle(r.input_broadcastable, r.new_order, r.inplace)
         IN /\ kernel' = numba_funcify_DimShuffle(op, [static_shape |-> StaticShape(r)])
            /\ req' = [builder |-> "numba_funcify_DimShuffle", request |-> req.request,
                       inverse |-> r]
    /\ pc' = "built_inverse"
    /\ UNCHANGED <<mem, args, ret>>

CallInverseDimShuffle ==
    /\ pc = "built_inverse"
    /\ \E copies \in CopyChoices(kernel, ret.shape) :
         LET r == dimshuffle(kernel, mem, ret, copies)
         IN /\ args' = args \o <<ret>>
            /\ mem' = r.mem
            /\ ret' = r.ret
    /\ pc' = "round_trip"
    /\ UNCHANGED <<req, kernel>>

NextDimShuffle ==
    \/ BuildDimShuffle
    \/ CallDimShuffle
    \/ BuildInverseDimShuffle
    \/ CallInverseDimShuffle

SpecDimShuffle == Init /\ [][NextDimShuffle]_vars

\* Builder calls for any operator tag, registered or not: Pow is a scalar
\* operator without a registered in-place update.
UnregisteredOps == {"Pow"}

OperatorTags == {"Add"} \cup UnregisteredOps

BuildAxisReducerForTag ==
    /\ pc = "idle"
    /\ \E op \in OperatorTags, ndim \in Ranks,
          dtype \in KernelDTypes, keepdims \in BOOLEAN :
         \E axis \in AxisRange(ndim), identity \in IdentityChoices(op) :
            /\ kernel' = create_axis_reducer(op, identity, axis, ndim, dtype, keepdims)
            /\ req' = [builder |-> "create_axis_reducer", scalar_op |-> op,
                       identity |-> identity, axes |-> <<axis>>, ndim |-> ndim,
                       dtype |-> dtype, keepdims |-> keepdims]
    /\ pc' = "built"
    /\ UNCHANGED <<mem, args, ret>>

BuildMultiaxisReducerForTag ==
    /\ pc = "idle"
    /\ \E op \in OperatorTags, ndim \in Ranks, dtype \in KernelDTypes :
         \E axes \in AxesChoices(ndim), identity \in IdentityChoices(op) :
            /\ kernel' = create_multiaxis_reducer(op, identity, axes, ndim, dtype)
            /\ req' = [builder |-> "create_multiaxis_reducer", scalar_op |-> op,
                       identity |-> identity, axes |-> axes, ndim |-> ndim,
                       dtype |-> dtype, keepdims |-> FALSE]
    /\ pc' = "built"
    /\ UNCHANGED <<mem, args, ret>>

NextReducers ==
    \/ BuildAxisReducerForTag
    \/ BuildMultiaxisReducerForTag
    \/ CallReducer

SpecReducers == Init /\ [][NextReducers]_vars

\* Calls of the kernels of every builder on inputs held in memory: the
\* caller allocates the inputs, then calls the kernel.
FullLike(x, v) == Arr(x.shape, [j \in 1..Prod(x.shape) |-> v])

\* The inputs of a call of the kernel k built for the request r.  The
\* softmax gradient takes an output gradient dy and a softmax output sm: the
\* softmax of equal cells along an axis of length 1 or 2.
KernelInputs(k, r) ==
    IF k.kind = "softmax_grad"
    THEN UNION {{<<dy, FullLike(dy, N(1))>>, <<dy, FullLike(dy, Q(1, 2))>>} :
                   dy \in Arrays(k.ndim)}
    ELSE IF k.kind = "maxandargmax" THEN {<<x>> : x \in MaxAndArgmaxInputs(k.ndim)}
    ELSE IF k.kind = "dimshuffle" THEN {<<x>> : x \in DimShuffleInputs(r.request)}
    ELSE {<<x>> : x \in Arrays(k.ndim)}

KernelKinds ==
    {"careduce_axis", "careduce_multi", "softmax", "log_softmax", "softmax_grad",
     "maxandargmax", "dimshuffle"}

PrepareKernel ==
    /\ pc = "built"
    /\ kernel.kind \in KernelKinds
    /\ \E xs \in KernelInputs(kernel, req) :
         /\ mem' = [i \in 1..Len(xs) |-> xs[i].data]
         /\ args' = [i \in 1..Len(xs) |-> Ref(i, xs[i].shape)]
    /\ pc' = "ready"
    /\ UNCHANGED <<req, kernel, ret>>

\* The calls of the kernels on the inputs the caller allocated.  Every
\* array a kernel returns is one it allocated.
CallReadyReducer ==
    /\ pc = "ready"
    /\ kernel.kind \in {"careduce_axis", "careduce_multi"}
    /\ \E ub \in UBChoices(kernel) :
         LET v == careduce(kernel, Load(mem, args[1]), ub)
         IN /\ mem' = ReducerStored(mem, kernel, v)
            /\ ret' = ReducerReturned(mem, kernel, args[1], v)
    /\ pc' = "called"
    /\ UNCHANGED <<req, kernel, args>>

CallReadySoftmax ==
    /\ pc = "ready"
    /\ kernel.kind = "softmax"
    /\ LET v == softmax_py_fn(kernel, Load(mem, args[1]))
       IN /\ mem' = Stored(mem, v)
          /\ ret' = Returned(mem, v)
    /\ pc' = "called"
    /\ UNCHANGED <<req, kernel, args>>

CallReadyLogSoftmax ==
    /\ pc = "ready"
    /\ kernel.kind = "log_softmax"
    /\ LET v == log_softmax_py_fn(kernel, Load(mem, args[1]))
       IN /\ mem' = Stored(mem, v)
          /\ ret' = Returned(mem, v)
    /\ pc' = "called"
    /\ UNCHANGED <<req, kernel, args>>

CallReadySoftmaxGrad ==
    /\ pc = "ready"
    /\ kernel.kind = "softmax_grad"
    /\ LET v == softmax_grad_py_fn(kernel, Load(mem, args[1]), Load(mem, args[2]))
       IN /\ mem' = Stored(mem, v)
          /\ ret' = Returned(mem, v)
    /\ pc' = "called"
    /\ UNCHANGED <<req, kernel, args>>

CallReadyMaxAndArgmax ==
    /\ pc = "ready"
    /\ kernel.kind = "maxandargmax"
    /\ \E ub \in (IF kernel.ndim > 0 THEN UBChoices(kernel.reduce_max) ELSE {0}) :
         LET v == maxandargmax(kernel, Load(mem, args[1]), ub)
         IN IF v.kind = "tuple"
            THEN /\ mem' = StoredAll(mem, v.items)
                 /\ ret' = [kind |-> "tuple", items |-> ReturnedAll(mem, v.items)]
            ELSE /\ mem' = mem
                 /\ ret' = v
    /\ pc' = "called"
    /\ UNCHANGED <<req, kernel, args>>

CallReadyDimShuffle ==
    /\ pc = "ready"
    /\ kernel.kind = "dimshuffle"
    /\ \E copies \in CopyChoices(kernel, args[1].shape) :
         LET r == dimshuffle(kernel, mem, args[1], copies)
         IN /\ mem' = r.mem
            /\ ret' = r.ret
    /\ pc' = "called"
    /\ UNCHANGED <<req, kernel, args>>

NextFrame ==
    \/ BuildAxisReducerForTag
    \/ BuildMultiaxisReducerForTag
    \/ BuildSoftmax
    \/ BuildLogSoftmax
    \/ BuildSoftmaxGrad
    \/ BuildMaxAndArgmax
    \/ BuildDimShuffle
    \/ BuildElemwise
    \/ PrepareKernel
    \/ CallReadyReducer
    \/ CallReadySoftmax
    \/ CallReadyLogSoftmax
    \/ CallReadySoftmaxGrad
    \/ CallReadyMaxAndArgmax
    \/ CallReadyDimShuffle
    \/ PrepareElemwise
    \/ CallElemwise

SpecFrame == Init /\ [][NextFrame]_vars

\* Builder calls repeated: the first call, any other builder call, and the
\* first call made again with the same inputs.  kernel is the result of the
\* latest call, args holds the results of the calls before it.
builder_call(r) ==
    CASE r.builder = "create_axis_reducer" ->
           create_axis_reducer(r.scalar_op, r.identity, r.axes[1], r.ndim, r.dtype, r.keepdims)
      [] r.builder = "create_multiaxis_reducer" ->
           create_multiaxis_reducer(r.scalar_op, r.identity, r.axes, r.ndim, r.dtype)
      [] r.builder = "numba_funcify_Elemwise" -> numba_funcify_Elemwise(r.node)

OtherRequests ==
    {[builder |-> "create_axis_reducer", scalar_op |-> op, identity |-> N(0),
      axes |-> <<a>>, ndim |-> 2, dtype |-> "int8", keepdims |-> FALSE] :
        op \in OperatorTags, a \in {0, 2}}
    \cup {[builder |-> "create_multiaxis_reducer", scalar_op |-> op, identity |-> N(0),
           axes |-> axes, ndim |-> 2, dtype |-> "int8", keepdims |-> FALSE] :
             op \in OperatorTags, axes \in {<<0, 1>>, <<1, 1>>}}
    \cup {[builder |-> "numba_funcify_Elemwise", node |-> node] :
             node \in {n \in ElemwiseNodes :
                         n.scalar_op = "Add" /\ n.ndim = 1 /\ n.dtype = "int8"}}

BuildOther ==
    /\ pc = "built"
    /\ \E r \in OtherRequests : kernel' = builder_call(r)
    /\ args' = <<kernel>>
    /\ pc' = "built_other"
    /\ UNCHANGED <<req, mem, ret>>

BuildAgain ==
    /\ pc \in {"built", "built_other"}
    /\ kernel' = builder_call(req)
    /\ args' = Append(args, kernel)
    /\ pc' = "rebuilt"
    /\ UNCHANGED <<req, mem, ret>>

NextRebuild ==
    \/ BuildAxisReducerForTag
    \/ BuildMultiaxisReducerForTag
    \/ BuildElemwise
    \/ BuildOther
    \/ BuildAgain

SpecRebuild == Init /\ [][NextRebuild]_vars

\* The composed function of create_multiaxis_reducer run line by line.  The
\* frame of the running call is in ret: vars holds the input followed by
\* axis_0_res, axis_1_res, ... as they are assigned, ub the outcome of this
\* call's undefined conversions.
Frame(vs, ub) == [kind |-> "frame", vars |-> vs, ub |-> ub]

\* Line i of the body calling a stage that keeps the reduced axis
stage_call_keepdims(k, i, vs, ub) ==
    careduce_axis([k.stages[i] EXCEPT !.keepdims = TRUE], vs[i], ub)

\* Line i of the body (i from 1):
\* axis_{i-1}_res = careduce_axes_fn_{i-1}(last_var_name).
stage_call(k, i, vs, ub) == careduce_axis(k.stages[i], vs[i], ub)

EnterCareduce ==
    /\ pc = "built"
    /\ kernel.kind = "careduce_multi"
    /\ \E x \in Arrays(kernel.ndim), ub \in UBChoices(kernel) :
         /\ mem' = <<x.data>>
         /\ args' = <<Ref(1, x.shape)>>
         /\ ret' = Frame(<<x>>, ub)
    /\ pc' = "running"
    /\ UNCHANGED <<req, kernel>>

StageCall ==
    /\ pc = "running"
    /\ Len(ret.vars) <= Len(kernel.stages)
    /\ LET v == stage_call(kernel, Len(ret.vars), ret.vars, ret.ub)
       IN IF v.kind = "error"
          THEN pc' = "called" /\ ret' = v
          ELSE pc' = "running" /\ ret' = Frame(Append(ret.vars, v), ret.ub)
    /\ UNCHANGED <<req, kernel, mem, args>>

ReturnCareduce ==
    /\ pc = "running"
    /\ Len(ret.vars) = Len(kernel.stages) + 1
    /\ LET v == ret.vars[Len(ret.vars)]
       IN /\ mem' = Stored(mem, v)
          /\ ret' = Returned(mem, v)
    /\ pc' = "called"
    /\ UNCHANGED <<req, kernel, args>>

NextStages ==
    \/ BuildMultiaxisReducer
    \/ EnterCareduce
    \/ StageCall
    \/ ReturnCareduce

SpecStages == Init /\ [][NextStages]_vars

\* A call of a dimshuffle kernel on any array of the input's rank, whether
\* or not its runtime shape is one the node's type declares.
CallDimShuffleAnyShape ==
    /\ pc = "built"
    /\ kernel.kind = "dimshuffle"
    /\ \E x \in Arrays(Len(req.request.input_broadcastable)) :
         \E copies \in CopyChoices(kernel, x.shape) :
            LET r == dimshuffle(kernel, <<x.data>>, Ref(1, x.shape), copies)
            IN /\ args' = <<Ref(1, x.shape)>>
               /\ mem' = r.mem
               /\ ret' = r.ret
    /\ pc' = "called"
    /\ UNCHANGED <<req, kernel>>

NextDimShuffleAnyShape == BuildDimShuffle \/ CallDimShuffleAnyShape

SpecDimShuffleAnyShape == Init /\ [][NextDimShuffleAnyShape]_vars

\* The bodies of softmax_py_fn and log_softmax_py_fn run line by line.  The
\* frame in ret holds the argument x followed by the values computed so
\* far, each operation of the body being one line.

\* The second line of softmax_py_fn taking the exponential of x itself
softmax_line_unshifted(k, i, vs) ==
    IF i = 1 THEN call_reduce_max(k, vs[1])
    ELSE IF i = 2 THEN np_exp(vs[1])
    ELSE IF i = 3 THEN call_reduce_sum(k, vs[3])
    ELSE Map2("/", vs[3], vs[4])

\* z = reduce_max(x); e_x = np.exp(x - z); w = reduce_sum(e_x); sm = e_x / w
softmax_line(k, i, vs) ==
    IF i = 1 THEN call_reduce_max(k, vs[1])
    ELSE IF i = 2 THEN np_exp(Map2("-", vs[1], vs[2]))
    ELSE IF i = 3 THEN call_reduce_sum(k, vs[3])
    ELSE Map2("/", vs[3], vs[4])

\* xdev = x - reduce_max(x); lsm = xdev - np.log(reduce_sum(np.exp(xdev))),
\* operand by operand as the expression is evaluated.
log_softmax_line(k, i, vs) ==
    IF i = 1 THEN call_reduce_max(k, vs[1])
    ELSE IF i = 2 THEN Map2("-", vs[1], vs[2])
    ELSE IF i = 3 THEN np_exp(vs[3])
    ELSE IF i = 4 THEN call_reduce_sum(k, vs[4])
    ELSE IF i = 5 THEN np_log(vs[5])
    ELSE Map2("-", vs[3], vs[6])

BodyLines(k) == IF k.kind = "softmax" THEN 4 ELSE 6

EnterSoftmax ==
    /\ pc = "built"
    /\ kernel.kind \in {"softmax", "log_softmax"}
    /\ \E x \in Arrays(kernel.ndim) :
         /\ mem' = <<x.data>>
         /\ args' = <<Ref(1, x.shape)>>
         /\ ret' = Frame(<<x>>, 0)
    /\ pc' = "running"
    /\ UNCHANGED <<req, kernel>>

SoftmaxLine ==
    /\ pc = "running"
    /\ kernel.kind = "softmax"
    /\ Len(ret.vars) <= BodyLines(kernel)
    /\ LET v == softmax_line(kernel, Len(ret.vars), ret.vars)
       IN IF v.kind = "error"
          THEN pc' = "called" /\ ret' = v
          ELSE pc' = "running" /\ ret' = Frame(Append(ret.vars, v), 0)
    /\ UNCHANGED <<req, kernel, mem, args>>

LogSoftmaxLine ==
    /\ pc = "running"
    /\ kernel.kind = "log_softmax"
    /\ Len(ret.vars) <= BodyLines(kernel)
    /\ LET v == log_softmax_line(kernel, Len(ret.vars), ret.vars)
       IN IF v.kind = "error"
          THEN pc' = "called" /\ ret' = v
          ELSE pc' = "running" /\ ret' = Frame(Append(ret.vars, v), 0)
    /\ UNCHANGED <<req, kernel, mem, args>>

ReturnSoftmax ==
    /\ pc = "running"
    /\ kernel.kind \in {"softmax", "log_softmax"}
    /\ Len(ret.vars) = BodyLines(kernel) + 1
    /\ LET v == ret.vars[Len(ret.vars)]
       IN /\ mem' = Stored(mem, v)
          /\ ret' = Returned(mem, v)
    /\ pc' = "called"
    /\ UNCHANGED <<req, kernel, args>>

NextSoftmaxLines ==
    \/ BuildSoftmax
    \/ BuildLogSoftmax
    \/ EnterSoftmax
    \/ SoftmaxLine
    \/ LogSoftmaxLine
    \/ ReturnSoftmax

SpecSoftmaxLines == Init /\ [][NextSoftmaxLines]_vars

\* The loop of the generated careduce_axis of a rank-1 kernel run iteration
\* by iteration.  The frame in ret holds the values of res[0]: the value
\* np.full stored, then the value after every iteration of the loop.
FoldVals == {N(-3), N(0), N(2), N(100)}

MaxFold == 3

FoldInputs == UNION {{Arr(<<n>>, d) : d \in [1..n -> FoldVals]} : n \in 0..MaxFold}

\* The update taking 1 for the position of every element
loop_update_unit_count(k, acc, x, i, ub) ==
    CastTo(k.dtype, scalar_in_place_fn(k.scalar_op, acc, x.data[i + 1], 0), ub)

\* Iteration i (from 0) of `for i in range(axis_shape)`: the in-place
\* update of res[0] with x[i], stored in the dtype of res.
loop_update(k, acc, x, i, ub) ==
    CastTo(k.dtype, scalar_in_place_fn(k.scalar_op, acc, x.data[i + 1], i), ub)

EnterCareduceAxis ==
    /\ pc = "built"
    /\ kernel.kind = "careduce_axis"
    /\ kernel.ndim = 1
    /\ \E x \in FoldInputs, ub \in UBChoices(kernel) :
         /\ mem' = <<x.data>>
         /\ args' = <<Ref(1, x.shape)>>
         /\ ret' = Frame(<<CastTo(kernel.dtype, to_scalar(kernel.identity), ub)>>, ub)
    /\ pc' = "folding"
    /\ UNCHANGED <<req, kernel>>

FoldStep ==
    /\ pc = "folding"
    /\ Len(ret.vars) <= Len(mem[1])
    /\ LET acc == loop_update(kernel, ret.vars[Len(ret.vars)], Load(mem, args[1]),
                              Len(ret.vars) - 1, ret.ub)
       IN IF acc = QErr
          THEN pc' = "called" /\ ret' = Err("ZeroDivisionError")
          ELSE pc' = "folding" /\ ret' = Frame(Append(ret.vars, acc), ret.ub)
    /\ UNCHANGED <<req, kernel, mem, args>>

ReturnCareduceAxis ==
    /\ pc = "folding"
    /\ Len(ret.vars) = Len(mem[1]) + 1
    /\ LET v == IF kernel.keepdims THEN Arr(<<1>>, <<ret.vars[Len(ret.vars)]>>)
                ELSE Scalar(ret.vars[Len(ret.vars)])
       IN /\ mem' = Stored(mem, v)
          /\ ret' = Returned(mem, v)
    /\ pc' = "called"
    /\ UNCHANGED <<req, kernel, args>>

NextFold ==
    \/ BuildAxisReducer
    \/ EnterCareduceAxis
    \/ FoldStep
    \/ ReturnCareduceAxis

SpecFold == Init /\ [][NextFold]_vars

NextEmptyAxes ==
    \/ BuildMultiaxisReducerForTag
    \/ BuildCAReduce
    \/ CallReducer

SpecEmptyAxes == Init /\ [][NextEmptyAxes]_vars

NextAxis == BuildAxisReducer \/ CallReducer

SpecAxis == Init /\ [][NextAxis]_vars

NextMulti == BuildMultiaxisReducer \/ CallReducer

SpecMulti == Init /\ [][NextMulti]_vars


(***************************************************************************)
(* Reference reductions used to state the claims                           *)
(***************************************************************************)
Reverse(s) == [i \in 1..Len(s) |-> s[Len(s) + 1 - i]]

SortAsc(S) == Reverse(SortDesc(S))

\* One fold per retained cell over all cells of the reduced axes, taken in
\* row-major order, starting from the identity.
WholeReduce(op, identity, dtype, x, axes, ub) ==
    LET rank == Len(x.shape)
        kept == (0..(rank - 1)) \ axes
        kseq == SortAsc(kept)
        rseq == SortAsc(axes)
        kshape == [p \in 1..Len(kseq) |-> x.shape[kseq[p] + 1]]
        rshape == [p \in 1..Len(rseq) |-> x.shape[rseq[p] + 1]]
        full(kidx, ridx) ==
            [p \in 1..rank |->
                IF (p - 1) \in axes
                THEN ridx[1 + Cardinality({a \in axes : a < p - 1})]
                ELSE kidx[1 + Cardinality({a \in kept : a < p - 1})]]
        res == [j \in 1..Prod(kshape) |->
                  LET kidx == Unravel(j - 1, kshape)
                  IN FoldAxis(op, dtype, ub, CastTo(dtype, identity, ub),
                        [m \in 1..Prod(rshape) |->
                            Cell(x, full(kidx, Unravel(m - 1, rshape)))], 0)]
    IN IF \E j \in DOMAIN res : res[j] = QErr THEN Err("ZeroDivisionError")
       ELSE IF kept = {} THEN Scalar(res[1])
       ELSE Arr(kshape, res)

\* create_axis_reducer (keepdims=False) applied one axis at a time, each
\* kernel built for the rank of the array it receives.
RECURSIVE OneAxisAtATime(_, _, _, _, _, _)
OneAxisAtATime(op, identity, dtype, x, axseq, ub) ==
    IF axseq = <<>> \/ x.kind = "error" THEN x
    ELSE OneAxisAtATime(op, identity, dtype,
            careduce_axis(create_axis_reducer(op, identity, Head(axseq),
                              Len(x.shape), dtype, FALSE), x, ub),
            Tail(axseq), ub)

(***************************************************************************)
(* Claims                                                                  *)
(***************************************************************************)
\* The call of a multi-stage kernel (two or more axes) that has returned.
MultiCalled ==
    /\ pc = "called"
    /\ kernel.kind = "careduce_multi"
    /\ Len(kernel.stages) >= 2

StageAxes(k) == {k.stages[i].axis : i \in DOMAIN k.stages}

\* The outcome of the undefined conversions of the call that returned: the
\* claims quantify over it, as the state does not record it.
MultiEqualsOneAtATime ==
    \E ub \in UBChoices(kernel) :
       LET st == kernel.stages[1]
           x == Load(mem, args[1])
       IN Load(mem, ret) = OneAxisAtATime(kernel.scalar_op, to_scalar(st.identity),
                               st.dtype, x, SortDesc(StageAxes(kernel)), ub)

MultiEqualsWhole ==
    \E ub \in UBChoices(kernel) :
       LET st == kernel.stages[1]
           x == Load(mem, args[1])
       IN Load(mem, ret) = WholeReduce(kernel.scalar_op, to_scalar(st.identity),
                               st.dtype, x, StageAxes(kernel), ub)

CommAssocOps ==
    {"Add", "Mul", "MulWithoutZeros", "AND", "OR", "XOR", "ScalarMaximum",
     "ScalarMinimum"}

NeutralIdentity(op) ==
    CASE op \in {"Add", "OR", "XOR"} -> N(0)
      [] op \in {"Mul", "MulWithoutZeros"} -> N(1)
      [] op = "AND" -> N(-1)
      [] op = "ScalarMaximum" -> NegInf
      [] op = "ScalarMinimum" -> PosInf

\* The arithmetic of the kernel is exact: an integer accumulator, or an
\* operator that only selects one of its operands.
ExactFold(k) ==
    \/ k.stages[1].dtype \in IntDTypes
    \/ k.scalar_op \in {"ScalarMaximum", "ScalarMinimum"}

NeutralCommAssoc(k) ==
    /\ k.scalar_op \in CommAssocOps
    /\ to_scalar(k.stages[1].identity) = NeutralIdentity(k.scalar_op)
    /\ ExactFold(k)

ReducedAxes(k) == IF k.kind = "careduce_axis" THEN 1 ELSE Len(k.stages)

\* C5: the output of a kernel of create_multiaxis_reducer built for k >= 1
\* distinct axes of a rank-r input has rank r - k, and is a bare scalar
\* exactly when all axes are reduced.
C5_OutputRank ==
    (/\ pc = "called"
     /\ kernel.kind \in {"careduce_axis", "careduce_multi"}
     /\ ReducedAxes(kernel) >= 1
     /\ ret.kind # "error")
    => /\ Len(ret.shape) = kernel.ndim - ReducedAxes(kernel)
       /\ (ret.kind = "scalar") <=> (ReducedAxes(kernel) = kernel.ndim)

\* A three-stage kernel has reduced a non-empty 3-d input to a bare scalar.
C5_Witness ==
    /\ pc = "called"
    /\ kernel.kind = "careduce_multi"
    /\ Len(kernel.stages) = 3
    /\ Prod(args[1].shape) = 4
    /\ ret.kind = "scalar"

\* The call of a single-axis kernel on an input whose reduced axis is empty.
EmptyAxisCalled ==
    /\ pc = "called"
    /\ kernel.kind = "careduce_axis"
    /\ args[1].shape[kernel.axis + 1] = 0

\* C3 as stated: reducing a zero-length axis gives, in every cell of the
\* result, exactly the identity the kernel was built with.
C3_Original ==
    EmptyAxisCalled =>
        /\ ret.kind # "error"
        /\ \A j \in DOMAIN Load(mem, ret).data :
              Load(mem, ret).data[j] = to_scalar(kernel.identity)

\* The part of C3 the code keeps: no fold step runs, and every cell holds
\* the identity whenever the accumulator dtype can represent it.
C3_Representable ==
    (/\ EmptyAxisCalled
     /\ (kernel.dtype = "float64" \/ IsFinite(to_scalar(kernel.identity))))
    => /\ ret.kind # "error"
       /\ \A j \in DOMAIN Load(mem, ret).data :
             Load(mem, ret).data[j] = to_scalar(kernel.identity)


\* The identity embedded in a kernel built by numba_funcify_CAReduce.
EmbeddedIdentity(k) ==
    IF k.kind = "careduce_axis" THEN to_scalar(k.identity)
    ELSE to_scalar(k.stages[1].identity)

CAReduceBuilt ==
    /\ pc = "built"
    /\ req.builder = "numba_funcify_CAReduce"

CAReduceAccDType(node) ==
    IF node.acc_dtype # "None" THEN node.acc_dtype ELSE node.out_dtype

\* C4 as stated: for an integer accumulator dtype, signed or unsigned, a
\* non-finite identity is embedded as the type's maximum (+inf) or minimum
\* (-inf); a finite identity, or any identity of a floating accumulator, is
\* embedded unchanged.
C4_Original ==
    (CAReduceBuilt /\ (req.node.axis_none => req.node.ndim > 0))
    => LET acc == CAReduceAccDType(req.node)
           id == req.node.identity
       IN /\ kernel.kind # "error"
          /\ EmbeddedIdentity(kernel) =
                IF acc \in IntDTypes /\ ~IsFinite(id)
                THEN (IF id = PosInf THEN N(IInfoMax(acc)) ELSE N(IInfoMin(acc)))
                ELSE IF acc \in IntDTypes THEN N(Wrap(acc, QTrunc(id)))
                ELSE id

\* The part of C4 the code keeps: the signed integer accumulators.
C4_Signed ==
    (/\ CAReduceBuilt
     /\ (req.node.axis_none => req.node.ndim > 0)
     /\ Kind(CAReduceAccDType(req.node)) # "u")
    => LET acc == CAReduceAccDType(req.node)
           id == req.node.identity
       IN /\ kernel.kind # "error"
          /\ EmbeddedIdentity(kernel) =
                IF acc \in IntDTypes /\ ~IsFinite(id)
                THEN (IF id = PosInf THEN N(IInfoMax(acc)) ELSE N(IInfoMin(acc)))
                ELSE IF acc \in IntDTypes THEN N(Wrap(acc, QTrunc(id)))
                ELSE id

(***************************************************************************)
(* Softmax                                                                 *)
(***************************************************************************)
SoftmaxCalled == pc = "called" /\ kernel.kind = "softmax"

\* The index tuples of an array of the given shape.
Indices(shape) == {Unravel(j - 1, shape) : j \in 1..Prod(shape)}

\* The sums of y along axis, one for every index of the other axes.
AxisSums(y, axis) ==
    {SeqSum([i \in 1..y.shape[axis + 1] |-> Cell(y, InsertAt(kidx, axis + 1, i - 1))]) :
        kidx \in Indices(RemoveAt(y.shape, axis + 1))}

\* exp(x - max x) / sum exp(x - max x) over all the cells of x.
GlobalSoftmax(x) ==
    LET vals == {x.data[j] : j \in DOMAIN x.data}
        m == CHOOSE v \in vals : \A u \in vals : ~QLess(v, u)
        e == [j \in DOMAIN x.data |-> Exp(QSub(x.data[j], m))]
    IN Arr(x.shape, [j \in DOMAIN x.data |-> QDiv(e[j], SeqSum(e))])

SoftmaxSumsToOne ==
    /\ ret.kind = "array"
    /\ LET x == Load(mem, args[1])
           y == Load(mem, ret)
       IN /\ y.shape = x.shape
          /\ IF kernel.axis_none
             THEN SeqSum(y.data) = N(1) /\ y = GlobalSoftmax(x)
             ELSE AxisSums(y, kernel.axis) \subseteq {N(1)}

\* C8 as stated: for every finite input and every valid axis the softmax
\* output sums to 1 along the axis in every cell, and with axis None the
\* global maximum and the global sum are used.
C8_Original == SoftmaxCalled => SoftmaxSumsToOne

SoftmaxAxisNonEmpty ==
    LET x == Load(mem, args[1])
    IN IF kernel.axis_none THEN x.data # <<>> ELSE x.shape[kernel.axis + 1] > 0

\* C8: for every finite input whose softmax axis has at least one element
\* (with axis None: a non-empty input) the softmax output sums to 1 along
\* the axis in every cell; with axis None it is exp(x - max x) divided by
\* the sum over all the cells.
C8_SoftmaxNonEmptyAxis == (SoftmaxCalled /\ SoftmaxAxisNonEmpty) => SoftmaxSumsToOne

C8_Witness ==
    /\ SoftmaxCalled
    /\ ~kernel.axis_none
    /\ kernel.axis = 1
    /\ Load(mem, args[1]) = Arr(<<2, 2>>, <<N(-1), N(2), N(0), N(0)>>)
    /\ Load(mem, ret) = Arr(<<2, 2>>, <<Q(1, 9), Q(8, 9), Q(1, 2), Q(1, 2)>>)

(***************************************************************************)
(* Axis normalisation at build time                                        *)
(***************************************************************************)
AxisBuilders ==
    {"create_axis_reducer", "numba_funcify_Softmax",
     "numba_funcify_LogSoftmax", "numba_funcify_SoftmaxGrad"}

AxisBuilt == pc # "idle" /\ req.builder \in AxisBuilders /\ ~req.axis_none

\* The axes a kernel and the reducers inside it work along.
KernelAxes(k) ==
    IF k.kind = "careduce_axis" THEN {k.axis}
    ELSE IF k.kind = "softmax_grad" THEN {k.axis, k.reduce_sum.axis}
    ELSE {k.axis, k.reduce_max.axis, k.reduce_sum.axis}

\* C9: the single-axis reducer and the softmax, log-softmax and softmax-grad
\* builders on a rank-r input accept every integer axis in [-r, r) and work
\* along axis mod r; every axis outside fails the build with ValueError and
\* no kernel is produced.
C9_AxisNormalization ==
    AxisBuilt =>
        IF -req.ndim <= req.axis /\ req.axis < req.ndim
        THEN kernel.kind \notin {"error", "none"}
             /\ KernelAxes(kernel) = {req.axis % req.ndim}
        ELSE kernel = AxisError(req.axis, req.ndim)

C9_Witness ==
    /\ pc = "built"
    /\ req.builder = "numba_funcify_LogSoftmax"
    /\ ~req.axis_none
    /\ req.ndim = 3
    /\ req.axis = -1
    /\ kernel.kind = "log_softmax"
    /\ kernel.axis = 2
    /\ kernel.reduce_max.axis = 2

(***************************************************************************)
(* Elemwise in place                                                       *)
(***************************************************************************)
\* A call of an in-place kernel whose updated input is an array.
InPlaceArrayCall ==
    /\ pc = "ready"
    /\ pc' = "called"
    /\ kernel.kind = "elemwise_inplace"
    /\ ~kernel.scalar_target

\* The arguments of the call with the original of the updated input in
\* place of its copy.
OriginalArgs == [i \in 1..Len(args) |-> Ref(i, args[i].shape)]

\* C2: a call of an in-place elementwise kernel whose updated input has rank
\* >= 1, on a copy of that input, returns the array the out-of-place kernel
\* returns on the same inputs; the copy's storage holds that result
\* afterwards, no new array is allocated and every other input, the
\* original of the copy included, is unchanged.
C2_InPlaceEqualsOutOfPlace ==
    [][InPlaceArrayCall =>
         LET out_of_place == ufunc_call(mem, kernel.elemwise_fn, OriginalArgs, NoKernel)
             target == args[kernel.input_idx + 1]
         IN /\ out_of_place.ret.kind = "array"
            /\ ret'.kind = "array"
            /\ Load(mem', ret') = Load(out_of_place.mem, out_of_place.ret)
            /\ mem'[target.buf] = Load(out_of_place.mem, out_of_place.ret).data
            /\ Len(mem') = Len(mem)
            /\ \A b \in 1..Len(mem) : b # target.buf => mem'[b] = mem[b]]_vars

C2_Witness ==
    /\ pc = "called"
    /\ kernel.kind = "elemwise_inplace"
    /\ kernel.elemwise_fn.scalar_op = "Sub"
    /\ kernel.input_idx = 1
    /\ args = <<Ref(1, <<1, 2>>), Ref(3, <<2, 2>>)>>
    /\ ret = Ref(3, <<2, 2>>)
    /\ mem = << <<N(2), N(0)>>,
                <<N(-1), N(0), N(2), N(2)>>,
                <<N(3), N(0), N(0), N(-2)>> >>

(***************************************************************************)
(* Max and argmax                                                          *)
(***************************************************************************)
\* A call of a max-and-argmax kernel on a non-empty array of rank >= 1.
MaxAndArgmaxCalled ==
    /\ pc = "called"
    /\ kernel.kind = "maxandargmax"
    /\ kernel.ndim >= 1
    /\ mem[1] # <<>>

\* The index into x made of the index kidx of the kept axes and the index
\* ridx of the reduced axes.
Combined(node, kidx, ridx) ==
    LET keep == SelectSeq([i \in 1..node.ndim |-> i - 1],
                          LAMBDA i : i \notin SeqToSet(node.axes))
    IN [d \in 1..node.ndim |->
          IF d - 1 \in SeqToSet(node.axes)
          THEN ridx[CHOOSE i \in 1..Len(node.axes) : node.axes[i] = d - 1]
          ELSE kidx[CHOOSE i \in 1..Len(keep) : keep[i] = d - 1]]

\* Every kept cell holds the maximum over the reduced axes and the row-major
\* flat index, over the reduced axes, of an element equal to it.
MaxAndArgmaxAgree ==
    /\ ret.kind = "tuple"
    /\ LET node == req.node
           x == Load(mem, args[1])
           max_res == Load(mem, ret.items[1])
           max_idx_res == Load(mem, ret.items[2])
           kept_shape == [i \in 1..kernel.n_keep |-> x.shape[kernel.reaxis_order[i] + 1]]
           reduced_shape == [i \in 1..Len(node.axes) |-> x.shape[node.axes[i] + 1]]
       IN /\ max_res.shape = kept_shape
          /\ max_idx_res.shape = kept_shape
          /\ \A kidx \in Indices(kept_shape) :
               LET vals == {Cell(x, Combined(node, kidx, ridx)) : ridx \in Indices(reduced_shape)}
                   mx == Cell(max_res, kidx)
                   am == Cell(max_idx_res, kidx)
               IN /\ mx \in vals
                  /\ \A u \in vals : ~QLess(mx, u)
                  /\ IsInteger(am) /\ am[1] \in 0..(Prod(reduced_shape) - 1)
                  /\ Cell(x, Combined(node, kidx, Unravel(am[1], reduced_shape))) = mx

\* The documented example: [[3,1,2],[0,5,4]] over axis 1 gives max [3,5] and
\* argmax [0,1]; over both axes max 5 and argmax 4.
ExampleAgrees ==
    (Load(mem, args[1]) = ExampleArray) =>
        /\ ret.kind = "tuple"
        /\ req.node.axes = <<1>> =>
             /\ Load(mem, ret.items[1]) = Arr(<<2>>, <<N(3), N(5)>>)
             /\ Load(mem, ret.items[2]) = Arr(<<2>>, <<N(0), N(1)>>)
        /\ req.node.axes = <<0, 1>> =>
             /\ Load(mem, ret.items[1]).data = <<N(5)>>
             /\ Load(mem, ret.items[2]).data = <<N(4)>>

\* C6 as stated: for every non-empty array of rank >= 1 and every set of
\* reduced axes the max-and-argmax kernel returns, for each retained cell,
\* the maximum over the reduced axes and the row-major flat index of an
\* element equal to it, the documented example included.
C6_Original == MaxAndArgmaxCalled => (MaxAndArgmaxAgree /\ ExampleAgrees)

\* The same for a floating input, where the identity -inf of the maximum is
\* representable.
C6_Floating ==
    (MaxAndArgmaxCalled /\ kernel.dtype = "float64") => (MaxAndArgmaxAgree /\ ExampleAgrees)

C6_FloatingWitness ==
    /\ MaxAndArgmaxCalled
    /\ kernel.dtype = "float64"
    /\ Load(mem, args[1]) = ExampleArray
    /\ req.node.axes = <<0, 1>>
    /\ Load(mem, ret.items[1]) = Scalar(N(5))
    /\ Load(mem, ret.items[2]) = Arr(<<>>, <<N(4)>>)

(***************************************************************************)
(* DimShuffle                                                              *)
(***************************************************************************)
\* C7: a dimshuffle kernel followed by the kernel of the inverse dimshuffle
\* returns an array, or for rank 0 a scalar, with the shape and the values
\* of the original input.
C7_DimShuffleRoundTrip ==
    pc = "round_trip" =>
        /\ ret.kind # "error"
        /\ Load(mem, ret).shape = args[1].shape
        /\ Load(mem, ret).data = mem[1]

\* Swapping the two axes of a matrix twice, and dropping an axis of length 1
\* with a transposition and undoing both.
C7_Witness ==
    /\ pc = "round_trip"
    /\ req.request.new_order = <<1, 0>>
    /\ args[1].shape = <<2, 2>>
    /\ mem[1] = <<N(2), N(-1), N(0), N(2)>>
    /\ Load(mem, args[2]) = Arr(<<2, 2>>, <<N(2), N(0), N(-1), N(2)>>)
    /\ Load(mem, ret) = Arr(<<2, 2>>, <<N(2), N(-1), N(0), N(2)>>)

DuplicateAxis(new_order) ==
    \E i, j \in 1..Len(new_order) : i < j /\ new_order[i] # X /\ new_order[i] = new_order[j]

\* C10: a dimshuffle request naming the same input axis twice fails the
\* build with a ValueError saying that the axis may not appear twice, and
\* no kernel is built.
C10_DuplicateAxisRejected ==
    (pc = "built" /\ req.builder = "numba_funcify_DimShuffle"
       /\ DuplicateAxis(req.request.new_order))
    => kernel = ErrMsg("ValueError", "may not appear twice")

\* DimShuffle((False,), (0, 0)) of the test.
C10_Witness ==
    /\ pc = "built"
    /\ req.builder = "numba_funcify_DimShuffle"
    /\ req.request.input_broadcastable = <<FALSE>>
    /\ req.request.new_order = <<0, 0>>
    /\ kernel.kind = "error"
    /\ kernel.err = "ValueError"

(***************************************************************************)
(* Unregistered operator tags                                              *)
(***************************************************************************)
ReducerBuilt ==
    /\ pc # "idle"
    /\ req.builder \in {"create_axis_reducer", "create_multiaxis_reducer"}
    /\ "scalar_op" \in DOMAIN req

UnregisteredBuilt == ReducerBuilt /\ req.scalar_op \in UnregisteredOps

\* C11 as stated: building a reduction kernel for an operator tag without a
\* registered in-place update fails at build time with the
\* unsupported-operator error, and no kernel is returned.
C11_Original == UnregisteredBuilt => kernel = Err("NotImplementedError")

\* Every axis of the request is an axis of the input.
AxesInRange(r) == \A i \in DOMAIN r.axes : -r.ndim <= r.axes[i] /\ r.axes[i] < r.ndim

NoRepeatedAxis(r) ==
    Cardinality({r.axes[i] % r.ndim : i \in DOMAIN r.axes}) = Len(r.axes)

\* C11: a build for an unregistered operator tag with at least one axis,
\* all axes in range and none repeated, fails with NotImplementedError and
\* returns no kernel; with an axis out of range or repeated it fails with
\* the ValueError of the axis normalisation, which comes first; with no
\* axis at all no update is generated and the kernel returned is the
\* pass-through.  No call of a kernel ever fails with NotImplementedError.
C11_UnregisteredFailsAtBuild ==
    /\ UnregisteredBuilt =>
         IF req.axes = <<>>
         THEN kernel.kind = "careduce_multi" /\ kernel.stages = <<>>
         ELSE IF AxesInRange(req) /\ NoRepeatedAxis(req)
         THEN kernel = Err("NotImplementedError")
         ELSE kernel.kind = "error" /\ kernel.err = "ValueError"
    /\ (pc = "called" /\ ret.kind = "error") => ret.err # "NotImplementedError"
    /\ (pc = "called" /\ UnregisteredBuilt) => Load(mem, ret) = Load(mem, args[1])

\* Two axes of a rank-3 input, the second given as a negative index.
C11_Witness ==
    /\ pc = "built"
    /\ req.builder = "create_multiaxis_reducer"
    /\ req.scalar_op = "Pow"
    /\ req.ndim = 3
    /\ req.axes = <<0, -1>>
    /\ kernel = Err("NotImplementedError")


(***************************************************************************)
(* Elemwise: number of outputs                                             *)
(***************************************************************************)
ElemwiseBuilt ==
    /\ pc # "idle"
    /\ req.builder = "numba_funcify_Elemwise"

\* C12: the elementwise builder fails with NotImplementedError, returning no
\* vectorized kernel, for every node with more than one output, and returns
\* a kernel for every node with exactly one output.
C12_MultiOutputRejected ==
    ElemwiseBuilt =>
        /\ req.node.nout > 1 =>
             /\ kernel.kind = "error"
             /\ kernel.err = "NotImplementedError"
        /\ req.node.nout = 1 =>
             /\ kernel.kind \in {"ufunc", "elemwise_inplace"}
             /\ (kernel.kind = "ufunc") = (req.node.inplace_pattern = <<>>)

C12_Witness ==
    /\ pc = "built"
    /\ req.builder = "numba_funcify_Elemwise"
    /\ req.node.nout = 3
    /\ req.node.inplace_pattern = <<1>>
    /\ kernel.kind = "error"
    /\ kernel.err = "NotImplementedError"


(***************************************************************************)
(* Elemwise in place on a rank-0 input                                     *)
(***************************************************************************)
\* A call of an in-place kernel whose updated input has rank 0.
ScalarTargetCall ==
    /\ pc = "ready"
    /\ pc' = "called"
    /\ kernel.kind = "elemwise_inplace"
    /\ kernel.scalar_target

\* The value the out-of-place kernel computes on the inputs of the call.
OutOfPlaceValue ==
    LET ins == IF args[1].kind = "scalar" THEN args ELSE OriginalArgs
        r == ufunc_call(mem, kernel.elemwise_fn, ins, NoKernel)
    IN Load(r.mem, r.ret).data[1]

C13_Original ==
    [][ScalarTargetCall =>
         /\ ret' = Scalar(OutOfPlaceValue)
         /\ args' = args
         /\ \A b \in 1..Len(mem) : mem'[b] = mem[b]]_vars

\* C13: a call of an in-place elementwise kernel whose updated input has
\* rank 0 returns a scalar equal to the out-of-place result on the same
\* inputs.  An argument passed as a scalar is converted to a new 0-d array
\* that the kernel writes, and nothing of the caller's is changed; an
\* argument passed as a 0-d array is itself the array written, and holds the
\* result afterwards, every other input being unchanged.
C13_ScalarTarget ==
    [][ScalarTargetCall =>
         LET target == args[kernel.input_idx + 1]
         IN /\ ret' = Scalar(OutOfPlaceValue)
            /\ args' = args
            /\ target.kind = "scalar" => mem' = Append(mem, <<OutOfPlaceValue>>)
            /\ target.kind = "array" =>
                 mem' = [mem EXCEPT ![target.buf] = <<OutOfPlaceValue>>]]_vars

C13_Witness ==
    /\ pc = "called"
    /\ kernel.kind = "elemwise_inplace"
    /\ kernel.scalar_target
    /\ kernel.elemwise_fn.scalar_op = "Sub"
    /\ kernel.input_idx = 1
    /\ args = <<Scalar(N(2)), Scalar(N(-1))>>
    /\ ret = Scalar(N(3))
    /\ mem = << <<N(3)>> >>


(***************************************************************************)
(* Inputs left unchanged                                                   *)
(***************************************************************************)
KernelCall ==
    /\ pc = "ready"
    /\ pc' = "called"

\* The buffers of the caller whose contents the call changes.
Written == {b \in 1..Len(mem) : mem'[b] # mem[b]}

\* C14: a call of a kernel of the single-axis reducer, the multi-axis
\* reducer, the softmax, log-softmax, softmax-gradient and max-and-argmax
\* builders, of a dimshuffle and of the out-of-place elementwise builder
\* changes no array the caller holds; a call of an in-place elementwise
\* kernel changes at most the array passed as its target.
C14_InputsUnchanged ==
    [][KernelCall =>
         /\ Len(mem') >= Len(mem)
         /\ args' = args
         /\ kernel.kind # "elemwise_inplace" => Written = {}
         /\ kernel.kind = "elemwise_inplace" =>
              \A b \in Written :
                 /\ args[kernel.input_idx + 1].kind = "array"
                 /\ b = args[kernel.input_idx + 1].buf]_vars

C14_Witness ==
    /\ pc = "called"
    /\ kernel.kind = "softmax_grad"
    /\ ~kernel.axis_none
    /\ kernel.axis = 1
    /\ args = <<Ref(1, <<1, 2>>), Ref(2, <<1, 2>>)>>
    /\ ret = Ref(3, <<1, 2>>)
    /\ Len(mem) = 3
    /\ mem[1] = <<N(2), N(0)>>
    /\ mem[2] = <<Q(1, 2), Q(1, 2)>>
    /\ mem[3] = <<Q(1, 2), Q(-1, 2)>>


(***************************************************************************)
(* DimShuffle: storage of the result                                       *)
(***************************************************************************)
\* A dimshuffle kernel has returned an array: the first call of a request
\* or the call of its inverse on the result of the first.
DimShuffleReturned ==
    /\ pc \in {"called", "round_trip"}
    /\ kernel.kind = "dimshuffle"
    /\ ret.kind = "array"

\* The argument of the last call.
DimShuffleInput == args[Len(args)]

\* C15: the array a dimshuffle kernel built with inplace=false returns is
\* held in a buffer allocated by the call, never in the buffer of the input
\* nor in any other buffer of the caller, whatever the permutation and the
\* inserted axes; the input is left as it was.
C15_NoSharedStorage ==
    (DimShuffleReturned /\ ~kernel.inplace) =>
        /\ kernel.ndim_new_shape >= 1
        /\ DimShuffleInput.kind = "array" => ret.buf # DimShuffleInput.buf
        /\ ret.buf = Len(mem)
        /\ \A i \in 1..Len(args) : args[i].kind = "array" => ret.buf # args[i].buf
        /\ mem[ret.buf] = Load(mem, ret).data

C15_Witness ==
    /\ pc = "called"
    /\ kernel.kind = "dimshuffle"
    /\ ~kernel.inplace
    /\ kernel.no_transpose
    /\ kernel.augment = <<1>>
    /\ args = <<Ref(1, <<2, 2>>)>>
    /\ ret = Ref(2, <<2, 1, 2>>)
    /\ mem[1] = mem[2]


TriggerCarried(e) ==
    IF "axis" \in DOMAIN e THEN {<<"axis", e.axis>>, <<"ndim", e.ndim>>} ELSE {}

\* C17 as stated: every error of a reduction build for an unregistered
\* operator tag or an out-of-range axis carries the operator tag, the axis
\* or the shape that triggered it.
C17_Original ==
    (ReducerBuilt /\ kernel.kind = "error"
        /\ (~AxesInRange(req) \/ req.scalar_op \in UnregisteredOps))
    => TriggerCarried(kernel) # {}


(***************************************************************************)
(* Axes of the multi-axis reducer                                          *)
(***************************************************************************)
\* A build of create_multiaxis_reducer for a registered operator with more
\* than one axis, every axis in range.
MultiaxisBuilt ==
    /\ ReducerBuilt
    /\ req.builder = "create_multiaxis_reducer"
    /\ req.scalar_op \in RegisteredOps
    /\ Len(req.axes) > 1
    /\ AxesInRange(req)

\* The axis of every stage of a multi-stage kernel, in order.
StageSequence(k) == [i \in DOMAIN k.stages |-> k.stages[i].axis]

\* C18 as stated: given more than one axis, the axes are normalised into
\* [0, rank) and deduplicated, and the distinct axes are reduced once each in
\* descending order.
C18_Original ==
    MultiaxisBuilt =>
        /\ kernel.kind = "careduce_multi"
        /\ StageSequence(kernel) = SortDesc({a % req.ndim : a \in SeqToSet(req.axes)})


(***************************************************************************)
(* Identity of the max reduction of max-and-argmax                         *)
(***************************************************************************)
\* What the first stage of the max reduction stores in its accumulator:
\* np.full(res_shape, to_scalar(identity), dtype=dtype).
MaxAccumulatorInit(k, ub) == CastTo(k.dtype, EmbeddedIdentity(k.reduce_max), ub)

\* C19 as stated: the accumulator of the max reduction of a max-and-argmax
\* kernel starts at the minimum of an integer input dtype, and at -infinity
\* for a floating dtype.
C19_Original ==
    (pc # "idle" /\ kernel.kind = "maxandargmax" /\ kernel.ndim >= 1)
    => \A ub \in UBChoices(kernel.reduce_max) :
          MaxAccumulatorInit(kernel, ub) =
             IF kernel.dtype \in IntDTypes THEN N(IInfoMin(kernel.dtype)) ELSE NegInf


(***************************************************************************)
(* Stages of the multi-axis reducer                                        *)
(***************************************************************************)
\* The axes of the original input that are left, in order, after the first
\* i stages of the kernel k have each removed their axis.
RECURSIVE DimsAfter(_, _)
DimsAfter(k, i) ==
    IF i = 0 THEN [d \in 1..k.ndim |-> d - 1]
    ELSE RemoveAt(DimsAfter(k, i - 1), k.stages[i].axis + 1)

\* C20: a multi-stage build for distinct axes succeeds with one stage per
\* axis; stage i (counted from 0) is built for rank - i dimensions, its axis
\* lies in [0, rank - i), and every axis still to be reduced, that of stage
\* i included, is at its original position in the input of stage i.
C20_StageAxesValid ==
    (MultiaxisBuilt /\ NoRepeatedAxis(req))
    => /\ kernel.kind = "careduce_multi"
       /\ Len(kernel.stages) = Len(req.axes)
       /\ StageAxes(kernel) = {a % req.ndim : a \in SeqToSet(req.axes)}
       /\ \A i \in DOMAIN kernel.stages :
             /\ kernel.stages[i].ndim = req.ndim - (i - 1)
             /\ Len(DimsAfter(kernel, i - 1)) = req.ndim - (i - 1)
             /\ kernel.stages[i].axis \in 0..(req.ndim - (i - 1) - 1)
             /\ \A j \in i..Len(kernel.stages) :
                   /\ kernel.stages[j].axis + 1 \in DOMAIN DimsAfter(kernel, i - 1)
                   /\ DimsAfter(kernel, i - 1)[kernel.stages[j].axis + 1]
                         = kernel.stages[j].axis

\* Axes 0 and -1 of a rank-3 input: the first stage reduces axis 2 of three,
\* the second axis 0 of the two that are left.
C20_Witness ==
    /\ MultiaxisBuilt
    /\ req.ndim = 3
    /\ req.axes = <<0, -1>>
    /\ kernel.kind = "careduce_multi"
    /\ StageSequence(kernel) = <<2, 0>>
    /\ kernel.stages[2].ndim = 2
    /\ DimsAfter(kernel, 1) = <<0, 1>>


(***************************************************************************)
(* The stage calls of the composed reducer                                 *)
(***************************************************************************)
\* The frame of a running call of a kernel composed of two or more stages.
StagesRunning ==
    /\ pc = "running"
    /\ Len(kernel.stages) >= 2

\* C21, within a call: the i-th value assigned is the i-th stage applied to
\* the value assigned before it, starting from the kernel's input; every
\* stage is a single-axis reducer without keepdims and its result has one
\* dimension less than its argument; no more than k values are assigned.
C21_StagesInOrder ==
    StagesRunning =>
        /\ ret.vars[1] = Load(mem, args[1])
        /\ Len(ret.vars) <= Len(kernel.stages) + 1
        /\ \A i \in 1..(Len(ret.vars) - 1) :
              /\ kernel.stages[i].kind = "careduce_axis"
              /\ ~kernel.stages[i].keepdims
              /\ ret.vars[i + 1] = careduce_axis(kernel.stages[i], ret.vars[i], ret.ub)
              /\ Len(ret.vars[i + 1].shape) = Len(ret.vars[i].shape) - 1

\* C21, at the end of a call: the kernel returns after exactly k stage
\* calls, and what it returns is the result of the last one.
C21_ReturnsLastStage ==
    (StagesRunning /\ pc' = "called" /\ ret'.kind # "error")
    => /\ Len(ret.vars) = Len(kernel.stages) + 1
       /\ Load(mem', ret') = ret.vars[Len(kernel.stages) + 1]
       /\ Load(mem', ret') = careduce_multi(kernel, Load(mem, args[1]), ret.ub)

\* C21: the kernel composed for k >= 2 axes runs its k stages in order,
\* each on the result of the one before, and returns the last result.
C21_StageSequence == [](C21_StagesInOrder) /\ [][C21_ReturnsLastStage]_vars

\* Three stages have run on a non-empty 3-d input and left a bare scalar.
C21_Witness ==
    /\ pc = "running"
    /\ Len(kernel.stages) = 3
    /\ Len(ret.vars) = 4
    /\ Len(ret.vars[1].data) = 4
    /\ ret.vars[3].kind = "array"
    /\ ret.vars[3].data # ret.vars[2].data
    /\ ret.vars[4].kind = "scalar"


(***************************************************************************)
(* What the single-axis reducer returns                                    *)
(***************************************************************************)
AxisReducerCalled ==
    /\ pc = "called"
    /\ kernel.kind = "careduce_axis"

\* The cells x[c[0..a-1], i, c[a..]] for i over the whole extent of axis a.
AxisLine(x, a, c) ==
    [i \in 1..x.shape[a + 1] |->
        Cell(x, SubSeq(c, 1, a) \o <<i - 1>> \o SubSeq(c, a + 1, Len(c)))]

\* The start value `start` folded with the cells of that line in increasing
\* index order by the in-place update of the kernel's operator.
LineFold(k, x, c, start, ub) ==
    FoldAxis(k.scalar_op, k.dtype, ub, start, AxisLine(x, k.axis, c), 0)

\* The result of the call is the fold of every line from `start`: it has the
\* shape of the input without the reduced axis (with length 1 in its place
\* under keepdims, a bare scalar for a vector without keepdims), or the call
\* raised because an update did.
FoldsFrom(start, ub) ==
    LET x == Load(mem, args[1])
        res_shape == RemoveAt(x.shape, kernel.axis + 1)
        out == Load(mem, ret)
    IN IF \E c \in Indices(res_shape) : LineFold(kernel, x, c, start, ub) = QErr
       THEN ret.kind = "error"
       ELSE /\ ret.kind # "error"
            /\ out.shape = (IF kernel.keepdims
                            THEN InsertAt(res_shape, kernel.axis + 1, 1)
                            ELSE res_shape)
            /\ (out.kind = "scalar") <=> (kernel.ndim = 1 /\ ~kernel.keepdims)
            /\ Len(out.data) = Prod(res_shape)
            /\ \A c \in Indices(res_shape) :
                  out.data[1 + Ravel(c, res_shape)] = LineFold(kernel, x, c, start, ub)

\* C22 as stated: the result has the input's shape without the reduced axis
\* and every cell is the identity the kernel was built with, folded in
\* increasing index order with the cells along the axis.
C22_Original ==
    AxisReducerCalled =>
        \E ub \in UBChoices(kernel) : FoldsFrom(to_scalar(kernel.identity), ub)

\* The part of C22 the code keeps: whenever the kernel's dtype can hold the
\* identity, the result is the fold from the identity as stored in the dtype.
C22_Representable ==
    (/\ AxisReducerCalled
     /\ (kernel.dtype = "float64" \/ IsFinite(to_scalar(kernel.identity))))
    => FoldsFrom(CastTo(kernel.dtype, to_scalar(kernel.identity), 0), 0)


(***************************************************************************)
(* Shapes of the dimshuffle kernel                                         *)
(***************************************************************************)
DimShuffleCalled ==
    /\ pc = "called"
    /\ kernel.kind = "dimshuffle"
    /\ kernel.ndim_new_shape >= 1

\* The kernel k with the shape computed at call time.
DynamicKernel(k) == [k EXCEPT !.static = FALSE]

\* The lengths of the kept axes of the input shape, in their new order.
ShuffleShape(k, shape) == [i \in 1..Len(k.shuffle) |-> shape[k.shuffle[i] + 1]]

\* The runtime shape has, for every kept axis, the length the node's type
\* declares for the output axis it becomes.
ConformsToStatic(r, shape) ==
    \A i \in 1..Len(r.new_order) :
        r.new_order[i] # X => shape[r.new_order[i] + 1] = StaticShape(r)[i]

\* A call of a kernel with the output shape embedded.
StaticShapeCalled ==
    /\ DimShuffleCalled
    /\ kernel.static
    /\ Len(kernel.shuffle) > 0

\* C28, first part: on an input that conforms to the declared output shape
\* the embedded shape is the shape computed from the runtime shape.
C28_StrategiesAgree ==
    (StaticShapeCalled /\ ConformsToStatic(req.request, args[1].shape))
    => find_shape(kernel, ShuffleShape(kernel, args[1].shape))
         = find_shape(DynamicKernel(kernel), ShuffleShape(kernel, args[1].shape))

\* C28 as stated: the strategies agree on every conforming input, and on
\* every input that does not conform the kernel with the embedded shape
\* fails.
C28_Original ==
    /\ C28_StrategiesAgree
    /\ (StaticShapeCalled /\ ~ConformsToStatic(req.request, args[1].shape))
       => ret.kind = "error"


\* The call succeeded and returned as many elements as the input has.
C29_ElementCount ==
    (DimShuffleCalled /\ ret.kind # "error")
    => Prod(ret.shape) = Prod(args[1].shape)

\* A dropped axis of the input is longer than 1 and no kept axis is empty.
DroppedAxisLong(k, shape) ==
    /\ \E i \in (Len(k.shuffle) + 1)..Len(k.transposition) :
          shape[k.transposition[i] + 1] > 1
    /\ \A i \in 1..Len(k.shuffle) : shape[k.shuffle[i] + 1] > 0

\* C29 as stated: a successful call preserves the element count, so a call
\* whose dropped axis is longer than 1, no kept axis being empty, fails.
C29_Original ==
    /\ C29_ElementCount
    /\ (DimShuffleCalled /\ DroppedAxisLong(kernel, args[1].shape))
       => ret.kind = "error"

\* Every dropped axis of the input has length 1.
DroppedAxesUnit(k, shape) ==
    \A i \in (Len(k.shuffle) + 1)..Len(k.transposition) :
        shape[k.transposition[i] + 1] = 1

\* The index into the input of the cell at idx of the output: a kept axis
\* has the index of the output axis it became, a dropped axis index 0.
SourceIndex(new_order, ndim, idx) ==
    [a \in 1..ndim |->
        IF a - 1 \in SeqToSet(new_order)
        THEN idx[CHOOSE i \in 1..Len(new_order) : new_order[i] = a - 1]
        ELSE 0]

\* The call returned the input permuted as new_order says: length 1 at the
\* inserted axes, elsewhere the input's length of the axis named, and every
\* value that of the input's cell it comes from.
PermutedAsRequested ==
    LET r == req.request
        x == Load(mem, args[1])
        out == Load(mem, ret)
    IN /\ ret.kind = "array"
       /\ out.shape = [i \in 1..Len(r.new_order) |->
                         IF r.new_order[i] = X THEN 1 ELSE x.shape[r.new_order[i] + 1]]
       /\ Len(out.data) = Prod(out.shape)
       /\ \A idx \in Indices(out.shape) :
             Cell(out, idx) = Cell(x, SourceIndex(r.new_order, Len(x.shape), idx))

AtMostOne(a) == \A j \in DOMAIN a.data : ~QLess(N(1), a.data[j])

\* Within a call of softmax: the max of x comes first, the exponential is
\* taken of x minus that max, the sum is that of these exponentials, and
\* the quotient of the two comes last.
C24_SoftmaxOrder ==
    (pc = "running" /\ kernel.kind = "softmax") =>
        LET vs == ret.vars
        IN /\ vs[1] = Load(mem, args[1])
           /\ Len(vs) <= 5
           /\ Len(vs) >= 2 => vs[2] = call_reduce_max(kernel, vs[1])
           /\ Len(vs) >= 3 => /\ vs[3] = np_exp(Map2("-", vs[1], vs[2]))
                              /\ AtMostOne(vs[3])
           /\ Len(vs) >= 4 => vs[4] = call_reduce_sum(kernel, vs[3])
           /\ Len(vs) >= 5 => vs[5] = Map2("/", vs[3], vs[4])

\* Within a call of log-softmax: the max of x comes first, it is subtracted
\* from x, the exponential is taken of the difference, then the sum, its
\* log, and the subtraction of the log from the shifted values last.
C24_LogSoftmaxOrder ==
    (pc = "running" /\ kernel.kind = "log_softmax") =>
        LET vs == ret.vars
        IN /\ vs[1] = Load(mem, args[1])
           /\ Len(vs) <= 7
           /\ Len(vs) >= 2 => vs[2] = call_reduce_max(kernel, vs[1])
           /\ Len(vs) >= 3 => vs[3] = Map2("-", vs[1], vs[2])
           /\ Len(vs) >= 4 => vs[4] = np_exp(vs[3]) /\ AtMostOne(vs[4])
           /\ Len(vs) >= 5 => vs[5] = call_reduce_sum(kernel, vs[4])
           /\ Len(vs) >= 6 => vs[6] = np_log(vs[5])
           /\ Len(vs) >= 7 => vs[7] = Map2("-", vs[3], vs[6])

\* A call that returns has run every line, and returns the value of the
\* last one, which is what the kernel's function gives on the argument.
C24_ReturnsLastLine ==
    (/\ pc = "running"
     /\ kernel.kind \in {"softmax", "log_softmax"}
     /\ pc' = "called"
     /\ ret'.kind # "error")
    => /\ Len(ret.vars) = BodyLines(kernel) + 1
       /\ Load(mem', ret') = ret.vars[BodyLines(kernel) + 1]
       /\ Load(mem', ret') = (IF kernel.kind = "softmax"
                              THEN softmax_py_fn(kernel, Load(mem, args[1]))
                              ELSE log_softmax_py_fn(kernel, Load(mem, args[1])))

\* C24: the sub-steps of the softmax and log-softmax kernels run one after
\* the other in one order: max, subtraction, exponential, sum, and the
\* division (softmax) or the log and the subtraction (log-softmax) last.
C24_FixedOrder ==
    /\ [](C24_SoftmaxOrder /\ C24_LogSoftmaxOrder)
    /\ [][C24_ReturnsLastLine]_vars

\* A softmax along axis 0 of a 2x2 matrix has computed its sum; a cell of
\* the exponentials is below 1.
C24_Witness ==
    /\ pc = "running"
    /\ kernel.kind = "softmax"
    /\ ~kernel.axis_none
    /\ kernel.axis = 0
    /\ Len(ret.vars) = 4
    /\ ret.vars[1] = Arr(<<2, 2>>, <<N(2), N(-1), N(0), N(2)>>)
    /\ ret.vars[2] = Arr(<<1, 2>>, <<N(2), N(2)>>)
    /\ ret.vars[3] = Arr(<<2, 2>>, <<N(1), Q(1, 8), Q(1, 4), N(1)>>)
    /\ ret.vars[4] = Arr(<<1, 2>>, <<Q(5, 4), Q(9, 8)>>)


(***************************************************************************)
(* The updates of the reduction loop                                       *)
(***************************************************************************)
\* The loop run iteration by iteration returns what careduce_axis returns.
FoldAgreesWithKernel ==
    (pc = "folding" /\ pc' = "called")
    => Load(mem', ret') = careduce_axis(kernel, Load(mem, args[1]), ret.ub)

\* An iteration of the loop of a multiply-without-zero kernel.
MulWithoutZerosStep ==
    /\ pc = "folding"
    /\ kernel.scalar_op = "MulWithoutZeros"
    /\ pc' = "folding"

\* C25: an iteration of the multiply-without-zero loop with accumulator a
\* and operand b leaves in the accumulator the non-zero one of a and b when
\* exactly one of them is zero, a when both are zero, and the product a*b,
\* as the accumulator's dtype stores it, when neither is zero.
C25_MulWithoutZerosUpdate ==
    [][MulWithoutZerosStep =>
         LET a == ret.vars[Len(ret.vars)]
             b == mem[1][Len(ret.vars)]
             new == ret'.vars[Len(ret'.vars)]
         IN /\ Len(ret'.vars) = Len(ret.vars) + 1
            /\ (a = N(0) /\ b # N(0)) => new = b
            /\ (a # N(0) /\ b = N(0)) => new = a
            /\ (a = N(0) /\ b = N(0)) => new = a
            /\ (a # N(0) /\ b # N(0)) =>
                  /\ new = CastTo(kernel.dtype, QMul(a, b), ret.ub)
                  /\ (kernel.dtype = "float64" \/ QMul(a, b) = N(Wrap(kernel.dtype, QMul(a, b)[1])))
                     => new = QMul(a, b)]_vars

\* The accumulator was 0, then took the operand 2, kept 2 over a zero
\* operand, and was multiplied by -3.
C25_Witness ==
    /\ pc = "folding"
    /\ kernel.scalar_op = "MulWithoutZeros"
    /\ kernel.dtype = "int8"
    /\ mem[1] = <<N(2), N(0), N(-3)>>
    /\ ret.vars = <<N(0), N(2), N(2), N(-6)>>


\* The loop of a running-mean kernel after at least one iteration.
MeanFolded ==
    /\ pc = "folding"
    /\ kernel.scalar_op = "Mean"
    /\ Len(ret.vars) >= 2

\* The arithmetic mean of the first k elements of the input.
MeanOfFirst(k) == QDiv(SeqSum(SubSeq(mem[1], 1, k)), N(k))

\* C26 as stated: after folding the first k >= 1 elements the accumulator
\* of a running-mean kernel equals their arithmetic mean, whatever the
\* identity.
C26_Original == MeanFolded => ret.vars[Len(ret.vars)] = MeanOfFirst(Len(ret.vars) - 1)

\* An iteration of the loop of a running-mean kernel.
MeanStep ==
    /\ pc = "folding"
    /\ kernel.scalar_op = "Mean"
    /\ pc' = "folding"

\* The update is accumulator += (operand - accumulator) / (count + 1), with
\* count the 0-based position of the operand, stored in the accumulator's
\* dtype (an integer dtype keeps the integer part).
C26_Update ==
    MeanStep =>
        LET a == ret.vars[Len(ret.vars)]
            count == Len(ret.vars) - 1
            b == mem[1][count + 1]
            sum == QAdd(a, QDiv(QSub(b, a), N(count + 1)))
        IN ret'.vars = Append(ret.vars,
                              IF kernel.dtype = "float64" THEN sum
                              ELSE N(Wrap(kernel.dtype, QTrunc(sum))))

\* With a floating accumulator, after the first k >= 1 elements the
\* accumulator is their mean for either identity.
C26_FloatingMean ==
    (MeanFolded /\ kernel.dtype = "float64")
    => ret.vars[Len(ret.vars)] = MeanOfFirst(Len(ret.vars) - 1)

\* C26: the running-mean update is accumulator += (operand - accumulator) /
\* (count + 1) with count the 0-based position of the operand in the loop,
\* stored in the accumulator's dtype; with a floating accumulator the
\* accumulator equals, after the first k >= 1 elements, their arithmetic
\* mean, whatever finite identity it started from.
C26_RunningMean == [](C26_FloatingMean) /\ [][C26_Update]_vars

\* Started from the identity 1, a floating accumulator holds -3, -1/2 and
\* 33 after one, two and three elements.
C26_Witness ==
    /\ pc = "folding"
    /\ kernel.scalar_op = "Mean"
    /\ kernel.dtype = "float64"
    /\ mem[1] = <<N(-3), N(2), N(100)>>
    /\ ret.vars = <<N(1), N(-3), Q(-1, 2), N(33)>>


(***************************************************************************)
(* The multi-axis reducer without an axis                                  *)
(***************************************************************************)
\* create_multiaxis_reducer was called with an empty axes tuple: directly,
\* or by numba_funcify_CAReduce for axis=None on a rank-0 input.
EmptyAxesBuilt ==
    /\ pc # "idle"
    /\ \/ /\ req.builder = "create_multiaxis_reducer"
          /\ req.axes = <<>>
       \/ /\ req.builder = "numba_funcify_CAReduce"
          /\ req.node.axis_none
          /\ req.node.ndim = 0
          /\ kernel.kind # "error"

\* C27: a kernel composed for an empty axes tuple is built for every
\* operator tag, has no stage, and a call returns its argument itself:
\* nothing is allocated, and the identity and the operator are not applied.
C27_EmptyAxesPassThrough ==
    EmptyAxesBuilt =>
        /\ kernel.kind = "careduce_multi"
        /\ kernel.stages = <<>>
        /\ pc = "called" => /\ ret = args[1]
                            /\ Len(mem) = 1
                            /\ Load(mem, ret).data = mem[1]

\* The kernel built without an axis for the addition of a 2x2 matrix with
\* the identity 1 has returned the matrix.
C27_Witness ==
    /\ pc = "called"
    /\ req.builder = "create_multiaxis_reducer"
    /\ req.axes = <<>>
    /\ req.scalar_op = "Add"
    /\ req.identity = N(1)
    /\ kernel.stages = <<>>
    /\ ret = Ref(1, <<2, 2>>)
    /\ mem = <<<<N(2), N(-1), N(0), N(2)>>>>


\* The product of the non-zero elements of a sequence, 1 when there is none.
RECURSIVE ProductNonZero(_)
ProductNonZero(d) ==
    IF d = <<>> THEN N(1)
    ELSE IF Head(d) = N(0) THEN ProductNonZero(Tail(d))
    ELSE QMul(Head(d), ProductNonZero(Tail(d)))

\* No product of the non-zero elements of a prefix of the input leaves the
\* range of the kernel's dtype.
NoOverflow(k, d) ==
    k.dtype \in IntDTypes =>
        \A n \in 0..Len(d) :
            LET p == ProductNonZero(SubSeq(d, 1, n))[1]
            IN IInfoMin(k.dtype) <= p /\ p <= IInfoMax(k.dtype)

\* A multiply-without-zero reduction of a vector of integers started from
\* the identity 1, without overflow.
MulWithoutZerosFromOne ==
    /\ pc \in {"folding", "called"}
    /\ kernel.scalar_op = "MulWithoutZeros"
    /\ to_scalar(kernel.identity) = N(1)
    /\ NoOverflow(kernel, mem[1])

\* C30: in such a reduction the accumulator is non-zero after every fold
\* step and is the product of the non-zero elements folded so far; the
\* result is the product of the non-zero elements of the axis, and is 1
\* when every element is zero or the axis is empty.
C30_AccumulatorNonZero ==
    MulWithoutZerosFromOne =>
        /\ pc = "folding" =>
              /\ \A i \in DOMAIN ret.vars :
                    /\ ret.vars[i] # N(0)
                    /\ ret.vars[i] = ProductNonZero(SubSeq(mem[1], 1, i - 1))
        /\ pc = "called" =>
              /\ ret.kind # "error"
              /\ Load(mem, ret).data = <<ProductNonZero(mem[1])>>
              /\ (\A j \in DOMAIN mem[1] : mem[1][j] = N(0)) => Load(mem, ret).data = <<N(1)>>

\* The elements 0, -3, 0 have left 1, -3 and -3 in the accumulator.
C30_Witness ==
    /\ pc = "folding"
    /\ kernel.scalar_op = "MulWithoutZeros"
    /\ kernel.dtype = "int8"
    /\ to_scalar(kernel.identity) = N(1)
    /\ mem[1] = <<N(0), N(-3), N(0)>>
    /\ ret.vars = <<N(1), N(1), N(-3), N(-3)>>

====
